---- MODULE Spec2Model ----
(***************************************************************************)
(* A model of orix's Object3d container (src/orix/base/__init__.py) and of *)
(* the Quaternion algebra built on it (src/orix/quaternion/quaternion.py). *)
(*                                                                         *)
(* Numbers are exact: a component is an integer numerator over the         *)
(* denominator `den` shared by the components of one element, so division  *)
(* by the squared norm is modelled by what it does and equality of two     *)
(* results is decided by cross-multiplication.  den = 0 stands for the     *)
(* non-finite value numpy produces on a division by zero.                  *)
(*                                                                         *)
(* An array is a record [shape, data]: `data` holds the elements in        *)
(* row-major (C) order, as numpy stores them, and `shape` is the           *)
(* navigation shape (all axes but the last).                               *)
(***************************************************************************)
EXTENDS Integers, Sequences, FiniteSets, TLC

VARIABLES
    self,        \* the Quaternion instance a method is called on
    other,       \* the right-hand operand of __mul__ / outer
    pc,          \* position of the caller: "idle", "inverted", "storing", "done"
    op,          \* the method that was called
    lazy,        \* outer's lazy argument
    chunk_size,  \* outer's chunk_size argument
    res,         \* what the call returned or raised
    arr,         \* the preallocated output buffer of a lazy outer
    stored,      \* the output blocks whose store task has run
    heap,        \* numpy buffers: buffer id -> sequence of rows
    objs,        \* Object3d instances: name -> view onto a buffer
    arrays,      \* caller-held ndarrays: name -> view onto a buffer
    writes,      \* the number of in-place writes / of operations made so far
    q3,          \* the third operand of a product of three / of triple_cross
    shape_arg,   \* the argument of the call: a shape, a key, axes, a sample
    q_acc,       \* random: the list q of the samples accepted so far
    r_draw,      \* random: the candidates r drawn in the current round
    u_idx,       \* unique: the returned idx
    u_inv,       \* unique: the returned inv
    warned       \* the warnings emitted with warnings.warn, in order

\* The variables of the class methods and of unique.
extra == <<q3, shape_arg, q_acc, r_draw, u_idx, u_inv, warned>>

vars == <<self, other, pc, op, lazy, chunk_size, res, arr, stored, heap, objs, arrays,
          writes, extra>>

\* No class method and no unique has been called.
NoExtra ==
    /\ q3 = <<>>
    /\ shape_arg = <<>>
    /\ q_acc = <<>>
    /\ r_draw = <<>>
    /\ u_idx = <<>>
    /\ u_inv = <<>>
    /\ warned = <<>>

----------------------------------------------------------------------------
(* Bounds of the model. *)

MaxAxis == 3
MaxSize == 4
MaxChunk == 3
MaxCells == 9
MaxObjs == 3
MaxWrites == 1

----------------------------------------------------------------------------
(* Shapes and row-major indexing (numpy's ravel / reshape). *)

RECURSIVE Size(_)
Size(shape) ==
    IF shape = <<>> THEN 1 ELSE Head(shape) * Size(Tail(shape))

\* Multi-indices (0-based) of an array of navigation shape `shape`.
RECURSIVE Indices(_)
Indices(shape) ==
    IF shape = <<>> THEN {<<>>}
    ELSE {<<i>> \o t : i \in 0 .. (Head(shape) - 1), t \in Indices(Tail(shape))}

\* 0-based flat position of multi-index idx in C order.
RECURSIVE RavelFrom(_, _, _)
RavelFrom(idx, shape, acc) ==
    IF idx = <<>> THEN acc
    ELSE RavelFrom(Tail(idx), Tail(shape), acc * Head(shape) + Head(idx))

Ravel(idx, shape) == RavelFrom(idx, shape, 0)

\* The element of array a at multi-index idx.
At(a, idx) == a.data[Ravel(idx, a.shape) + 1]

\* Multi-index of 0-based flat position f in C order (numpy's unravel_index).
RECURSIVE Unravel(_, _)
Unravel(f, shape) ==
    IF shape = <<>> THEN <<>>
    ELSE LET rest == Size(Tail(shape))
         IN  <<f \div rest>> \o Unravel(f % rest, Tail(shape))

Max(a, b) == IF a >= b THEN a ELSE b
Min(a, b) == IF a <= b THEN a ELSE b

\* The last n entries of sequence s.
LastN(s, n) == SubSeq(s, Len(s) - n + 1, Len(s))

----------------------------------------------------------------------------
(* Exact numbers: an element is [num |-> <<integers>>, den |-> Nat]. *)

Elem(t) == [num |-> t, den |-> 1]

\* Two elements hold the same finite numbers.
SameValue(x, y) ==
    /\ x.den # 0
    /\ y.den # 0
    /\ Len(x.num) = Len(y.num)
    /\ \A k \in 1 .. Len(x.num) : x.num[k] * y.den = y.num[k] * x.den

\* Two arrays have the same shape and hold the same numbers.
SameArray(x, y) ==
    /\ x.shape = y.shape
    /\ Len(x.data) = Len(y.data)
    /\ \A f \in 1 .. Len(x.data) : SameValue(x.data[f], y.data[f])

SumSq(t) == t[1] * t[1] + t[2] * t[2] + t[3] * t[3] + t[4] * t[4]

----------------------------------------------------------------------------
(* Element-wise quaternion arithmetic. *)

\* quaternion_multiply with the signs of the two cross terms of b swapped.
quaternion_multiply_sign(q1, q2) ==
    LET a1 == q1.num[1]  b1 == q1.num[2]  c1 == q1.num[3]  d1 == q1.num[4]
        a2 == q2.num[1]  b2 == q2.num[2]  c2 == q2.num[3]  d2 == q2.num[4]
    IN  [num |-> << a1 * a2 - b1 * b2 - c1 * c2 - d1 * d2,
                    a1 * b2 + b1 * a2 - c1 * d2 + d1 * c2,
                    a1 * c2 - b1 * d2 + c1 * a2 + d1 * b2,
                    a1 * d2 + b1 * c2 - c1 * b2 + d1 * a2 >>,
         den |-> q1.den * q2.den]

\* The Hamilton product q1 * q2 of the numpy-quaternion array type, whose
\* four components are the formulas of the Quaternion class docstring.
quaternion_multiply(q1, q2) ==
    LET a1 == q1.num[1]  b1 == q1.num[2]  c1 == q1.num[3]  d1 == q1.num[4]
        a2 == q2.num[1]  b2 == q2.num[2]  c2 == q2.num[3]  d2 == q2.num[4]
    IN  [num |-> << a1 * a2 - b1 * b2 - c1 * c2 - d1 * d2,
                    a1 * b2 + b1 * a2 + c1 * d2 - d1 * c2,
                    a1 * c2 - b1 * d2 + c1 * a2 + d1 * b2,
                    a1 * d2 + b1 * c2 - c1 * b2 + d1 * a2 >>,
         den |-> q1.den * q2.den]

\* Quaternion.conj: q* = a - bi - cj - dk.
conj(q) == [num |-> <<q.num[1], -q.num[2], -q.num[3], -q.num[4]>>, den |-> q.den]

\* invert with the division by the squared norm left out.
invert_unscaled(q) == conj(q)

\* Quaternion.__invert__ on one element: conj / norm**2.  With q = n/den
\* the squared norm is SumSq(n)/den^2, so the quotient is conj(n)*den/SumSq(n);
\* a zero quaternion divides by zero (den = 0).
invert(q) ==
    LET cj == conj(q)
    IN  [num |-> [k \in 1 .. 4 |-> cj.num[k] * q.den], den |-> SumSq(q.num)]

\* quaternion.from_vector_part / as_vector_part.
from_vector_part(v) == [num |-> <<0, v.num[1], v.num[2], v.num[3]>>, den |-> v.den]
as_vector_part(q) == [num |-> <<q.num[2], q.num[3], q.num[4]>>, den |-> q.den]

\* mul_vector without the inverse: the vector part of (q * v) * q.
mul_vector_no_inverse(q, v) ==
    as_vector_part(quaternion_multiply(quaternion_multiply(q, from_vector_part(v)), q))

\* The rotated vector of __mul__: the vector part of (q * v) * ~q.
mul_vector(q, v) ==
    as_vector_part(
        quaternion_multiply(quaternion_multiply(q, from_vector_part(v)), invert(q)))

----------------------------------------------------------------------------
(* Classes and instances. *)

\* isinstance(x, Quaternion) and isinstance(x, Vector3d); SubQuaternion is a
\* subclass of Quaternion, Miller a subclass of Vector3d, ndarray is neither.
IsQuaternion(x) == x.cls \in {"Quaternion", "SubQuaternion"}
IsVector3d(x) == x.cls \in {"Vector3d", "Miller"}
IsMiller(x) == x.cls = "Miller"

\* An instance: its class, its array and, for a Miller, its metadata.
Instance(cls, shape, data, phase, coordinate_format) ==
    [cls |-> cls, shape |-> shape, data |-> data,
     phase |-> phase, coordinate_format |-> coordinate_format]

\* Object3d.__init__ from an array: cls(data).
Object3d_init(cls, a) == Instance(cls, a.shape, a.data, "none", "none")

\* Miller(xyz=..., phase=...): the constructor keeps the phase and starts
\* with the coordinate format "xyz".
Miller_init(cls, a, phase) == Instance(cls, a.shape, a.data, phase, "xyz")

\* What a call gave back: status "ok" with the returned instance, or the
\* exception raised / the NotImplemented sentinel with no instance.
Returned(obj) == [status |-> "ok", value |-> obj]
Raised(what) == [status |-> what, value |-> Instance("none", <<>>, <<>>, "none", "none")]

\* vector_result with the coordinate format of the new Miller left at the
\* constructor's default.
vector_result_default_format(oth, a) ==
    IF IsMiller(oth)
    THEN Returned(Miller_init(oth.cls, a, oth.phase))
    ELSE Returned(Object3d_init(oth.cls, a))

\* The vector result of __mul__ and outer: other.__class__(v), or for a
\* Miller a new Miller with other's phase, then other's coordinate_format.
vector_result(oth, a) ==
    IF IsMiller(oth)
    THEN LET m == Miller_init(oth.cls, a, oth.phase)
         IN  Returned([m EXCEPT !.coordinate_format = oth.coordinate_format])
    ELSE Returned(Object3d_init(oth.cls, a))

----------------------------------------------------------------------------
(* numpy broadcasting of two navigation shapes, as the element-wise       *)
(* product of two numpy-quaternion arrays applies it.                      *)

\* shape padded on the left with 1s to n axes.
PadLeft(shape, n) == [k \in 1 .. n |-> IF k <= n - Len(shape) THEN 1 ELSE shape[k - (n - Len(shape))]]

Broadcastable(s1, s2) ==
    LET n == Max(Len(s1), Len(s2))
        p1 == PadLeft(s1, n)
        p2 == PadLeft(s2, n)
    IN  \A k \in 1 .. n : p1[k] = p2[k] \/ p1[k] = 1 \/ p2[k] = 1

BroadcastShape(s1, s2) ==
    LET n == Max(Len(s1), Len(s2))
        p1 == PadLeft(s1, n)
        p2 == PadLeft(s2, n)
    IN  [k \in 1 .. n |-> IF p1[k] = 1 THEN p2[k] ELSE p1[k]]

\* The index into an operand of shape `shape` that result index m reads.
BroadcastIndex(m, shape) ==
    LET t == LastN(m, Len(shape))
    IN  [k \in 1 .. Len(shape) |-> IF shape[k] = 1 THEN 0 ELSE t[k]]

\* One element of self * other: q1 * q2 for a Quaternion operand, the
\* rotated vector for a Vector3d operand.
mul_element(oth, q, x) ==
    IF IsQuaternion(oth) THEN quaternion_multiply(q, x) ELSE mul_vector(q, x)

\* The element-wise product of x and y over the broadcast shape.
BroadcastMap(x, y) ==
    LET shape == BroadcastShape(x.shape, y.shape)
    IN  [shape |-> shape,
         data |-> [p \in 1 .. Size(shape) |->
                      LET m == Unravel(p - 1, shape)
                      IN  mul_element(y, At(x, BroadcastIndex(m, x.shape)),
                                      At(y, BroadcastIndex(m, y.shape)))]]

----------------------------------------------------------------------------
(* Quaternion.__mul__ *)

\* mul_quaternion building its result as the class of the left operand.
mul_quaternion_left_class(slf, oth) ==
    IF Broadcastable(slf.shape, oth.shape)
    THEN Returned(Object3d_init(slf.cls, BroadcastMap(slf, oth)))
    ELSE Raised("ValueError")

mul_quaternion(slf, oth) ==
    IF Broadcastable(slf.shape, oth.shape)
    THEN Returned(Object3d_init(oth.cls, BroadcastMap(slf, oth)))
    ELSE Raised("ValueError")

mul_vector3d(slf, oth) ==
    IF Broadcastable(slf.shape, oth.shape)
    THEN vector_result(oth, BroadcastMap(slf, oth))
    ELSE Raised("ValueError")

mul(slf, oth) ==
    IF IsQuaternion(oth) THEN mul_quaternion(slf, oth)
    ELSE IF IsVector3d(oth) THEN mul_vector3d(slf, oth)
    ELSE Raised("NotImplemented")

----------------------------------------------------------------------------
(* Quaternion.outer, dense mode *)

\* quaternion.rotate_vectors on one pair: the rotation matrix of q, which
\* as_rotation_matrix divides by the squared norm n of q, applied to v.
rotate_vectors(q, v) ==
    LET w == q.num[1]  x == q.num[2]  y == q.num[3]  z == q.num[4]
        n == SumSq(q.num)
        v1 == v.num[1]  v2 == v.num[2]  v3 == v.num[3]
    IN  [num |-> << (n - 2 * (y * y + z * z)) * v1 + 2 * (x * y - z * w) * v2
                        + 2 * (x * z + y * w) * v3,
                    2 * (x * y + z * w) * v1 + (n - 2 * (x * x + z * z)) * v2
                        + 2 * (y * z - x * w) * v3,
                    2 * (x * z - y * w) * v1 + 2 * (y * z + x * w) * v2
                        + (n - 2 * (x * x + y * y)) * v3 >>,
         den |-> n * v.den]

\* One element of the dense outer product.
outer_dense_element(oth, q, x) ==
    IF IsQuaternion(oth) THEN quaternion_multiply(q, x) ELSE rotate_vectors(q, x)

\* np.outer(q1, q2).reshape(q1.shape + q2.shape): both operands are
\* ravelled, entry (r1, r2) of the product is f(q1[r1], q2[r2]), and the
\* reshape keeps the C order.  tensordot in rotate_vectors lays out its
\* result in the same way.
OuterMap(x, y) ==
    LET n1 == Size(x.shape)
        n2 == Size(y.shape)
    IN  [shape |-> x.shape \o y.shape,
         data |-> [p \in 1 .. n1 * n2 |->
                      outer_dense_element(y, x.data[((p - 1) \div n2) + 1],
                                          y.data[((p - 1) % n2) + 1])]]

\* as_rotation_matrix raises ZeroDivisionError when an element has norm 0.
HasZeroNorm(x) == \E p \in 1 .. Len(x.data) : SumSq(x.data[p].num) = 0

outer_dense(slf, oth) ==
    IF IsQuaternion(oth)
    THEN Returned(Object3d_init(oth.cls, OuterMap(slf, oth)))
    ELSE IF HasZeroNorm(slf) THEN Raised("ZeroDivisionError")
    ELSE vector_result(oth, OuterMap(slf, oth))

----------------------------------------------------------------------------
(* Quaternion._outer_dask and the store of its blocks *)

\* outer_dask_quaternion with the signs of the two cross terms of b swapped.
outer_dask_quaternion_sign(q1, q2) ==
    LET a1 == q1.num[1]  b1 == q1.num[2]  c1 == q1.num[3]  d1 == q1.num[4]
        a2 == q2.num[1]  b2 == q2.num[2]  c2 == q2.num[3]  d2 == q2.num[4]
    IN  [num |-> << a1 * a2 - b1 * b2 - c1 * c2 - d1 * d2,
                    b1 * a2 + a1 * b2 + d1 * c2 - c1 * d2,
                    c1 * a2 + d1 * b2 + a1 * c2 - b1 * d2,
                    d1 * a2 - c1 * b2 + b1 * c2 + a1 * d2 >>,
         den |-> q1.den * q2.den]

\* One output element of the quaternion branch: the four einsum sums.
outer_dask_quaternion(q1, q2) ==
    LET a1 == q1.num[1]  b1 == q1.num[2]  c1 == q1.num[3]  d1 == q1.num[4]
        a2 == q2.num[1]  b2 == q2.num[2]  c2 == q2.num[3]  d2 == q2.num[4]
    IN  [num |-> << a1 * a2 - b1 * b2 - c1 * c2 - d1 * d2,
                    b1 * a2 + a1 * b2 - d1 * c2 + c1 * d2,
                    c1 * a2 + d1 * b2 + a1 * c2 - b1 * d2,
                    d1 * a2 - c1 * b2 + b1 * c2 + a1 * d2 >>,
         den |-> q1.den * q2.den]

\* One output element of the Vector3d branch.
outer_dask_vector3d(q1, v2) ==
    LET a1 == q1.num[1]  b1 == q1.num[2]  c1 == q1.num[3]  d1 == q1.num[4]
        x2 == v2.num[1]  y2 == v2.num[2]  z2 == v2.num[3]
    IN  [num |-> << (a1 * a1 + b1 * b1 - c1 * c1 - d1 * d1) * x2
                        + (a1 * c1 + b1 * d1) * z2 * 2
                        + (b1 * c1 - a1 * d1) * y2 * 2,
                    (a1 * a1 - b1 * b1 + c1 * c1 - d1 * d1) * y2
                        + (a1 * d1 + b1 * c1) * x2 * 2
                        + (c1 * d1 - a1 * b1) * z2 * 2,
                    (a1 * a1 - b1 * b1 - c1 * c1 + d1 * d1) * z2
                        + (a1 * b1 + c1 * d1) * y2 * 2
                        + (b1 * d1 - a1 * c1) * x2 * 2 >>,
         den |-> q1.den * q1.den * v2.den]

outer_dask_element(oth, q1, x2) ==
    IF IsQuaternion(oth) THEN outer_dask_quaternion(q1, x2)
    ELSE outer_dask_vector3d(q1, x2)

\* ChunkRange with the end of the chunk included.
ChunkRange_inclusive(k, n, c) == (k * c) .. Min((k + 1) * c, n)

\* The indices along one axis of length n that chunk k of extent c holds.
ChunkRange(k, n, c) == (k * c) .. (Min((k + 1) * c, n) - 1)

\* NumChunks without the last, shorter chunk.
NumChunks_floor(n, c) == n \div c

\* The number of chunks dask cuts an axis of length n into.
NumChunks(n, c) == (n + c - 1) \div c

\* The blocks of an array of shape `shape` chunked by c along every axis,
\* each named by its chunk number along every axis.
Blocks(shape, c) == Indices([k \in 1 .. Len(shape) |-> NumChunks(shape[k], c)])

\* Block blk holds multi-index idx.
InBlock(idx, blk, shape, c) ==
    \A k \in 1 .. Len(shape) : idx[k] \in ChunkRange(blk[k], shape[k], c)

\* The multi-indices block blk holds: along every axis the chunk's range,
\* cut at the end of the axis as a numpy slice is.
RECURSIVE BlockCells(_, _, _)
BlockCells(blk, shape, c) ==
    IF shape = <<>> THEN {<<>>}
    ELSE {<<i>> \o t :
             i \in ChunkRange(Head(blk), Head(shape), c) \cap (0 .. (Head(shape) - 1)),
             t \in BlockCells(Tail(blk), Tail(shape), c)}

\* np.empty(darr.shape): no cell holds a value yet.
Uninit == [num |-> <<>>, den |-> 0]

empty(shape) == [p \in 1 .. Size(shape) |-> Uninit]

\* The value the graph computes for output index m = i \o j.
outer_dask(slf, oth, m) ==
    outer_dask_element(oth,
                       At(slf, SubSeq(m, 1, Len(slf.shape))),
                       At(oth, LastN(m, Len(oth.shape))))

\* One task of da.store: output block blk is computed and written to its
\* region of the buffer.
store_block(buf, slf, oth, c, blk) ==
    LET shape == slf.shape \o oth.shape
        region == {Ravel(m, shape) + 1 : m \in BlockCells(blk, shape, c)}
    IN  [p \in DOMAIN buf |->
            IF p \in region
            THEN outer_dask(slf, oth, Unravel(p - 1, shape))
            ELSE buf[p]]

\* da.store run to completion: every task of the set has run.
RECURSIVE store(_, _, _, _, _)
store(buf, slf, oth, c, blocks) ==
    IF blocks = {} THEN buf
    ELSE LET blk == CHOOSE b \in blocks : TRUE
         IN  store(store_block(buf, slf, oth, c, blk), slf, oth, c, blocks \ {blk})

\* other.__class__(arr) on the filled buffer.
outer_lazy_result(slf, oth, buf) ==
    LET a == [shape |-> slf.shape \o oth.shape, data |-> buf]
    IN  IF IsQuaternion(oth) THEN Returned(Object3d_init(oth.cls, a))
        ELSE vector_result(oth, a)

\* The buffer once da.store has returned.
outer_lazy_buffer(slf, oth, c) ==
    LET shape == slf.shape \o oth.shape
    IN  store(empty(shape), slf, oth, c, Blocks(shape, c))

\* The buffer outer leaves behind: allocated and filled only on the lazy
\* path of a supported operand.
outer_buffer(buf, slf, oth, lzy, c) ==
    IF lzy /\ (IsQuaternion(oth) \/ IsVector3d(oth))
    THEN outer_lazy_buffer(slf, oth, c)
    ELSE buf

\* outer without the final else branch: whatever is not a Quaternion is
\* handled as a Vector3d.
outer_untyped(slf, oth, lzy, buf) ==
    IF lzy THEN outer_lazy_result(slf, oth, buf)
    ELSE outer_dense(slf, oth)

\* Quaternion.outer, buf being the buffer of the lazy path once da.store
\* has returned.
outer(slf, oth, lzy, buf) ==
    IF IsQuaternion(oth) \/ IsVector3d(oth)
    THEN IF lzy THEN outer_lazy_result(slf, oth, buf)
         ELSE outer_dense(slf, oth)
    ELSE Raised("NotImplementedError")

----------------------------------------------------------------------------
(* Quaternion.__invert__ on a batch: self.__class__(conj.data / norm**2). *)

invert_batch(slf) ==
    Object3d_init(slf.cls,
                  [shape |-> slf.shape,
                   data |-> [p \in 1 .. Len(slf.data) |-> invert(slf.data[p])]])

----------------------------------------------------------------------------
(* The inputs of the algebra: batches of every small navigation shape,    *)
(* filled from pools that hold unit, non-unit and zero elements.          *)

\* The numbers of navigation axes the model covers.
Ndims == {1, 2}

Shapes ==
    {s \in UNION {[1 .. n -> 1 .. MaxAxis] : n \in Ndims} : Size(s) <= MaxSize}

QPool == << <<1, 0, 0, 0>>, <<0, 1, 0, 0>>, <<1, 2, -1, 3>>, <<0, 0, 0, 0>>, <<-2, 1, 3, 1>> >>
VPool == << <<1, 0, 0>>, <<0, 0, 1>>, <<1, -2, 3>>, <<0, 0, 0>>, <<2, 1, -1>> >>

\* n elements read from pool, starting at position seed and wrapping.
Fill(pool, seed, n) ==
    [p \in 1 .. n |-> Elem(pool[((seed + p - 1) % Len(pool)) + 1])]

\* Instances of the classes, of every shape, with metadata <<phase, format>>.
Batches(classes, pool, seeds, metadata) ==
    {Instance(cls, sh, Fill(pool, seed, Size(sh)), md[1], md[2]) :
        cls \in classes, sh \in Shapes, seed \in seeds, md \in metadata}

\* The pool positions the left and the right operand start from.
SelfSeeds == 0 .. (Len(QPool) - 1)
OtherSeeds == {0, 2, 3}

QuaternionClasses == {"Quaternion", "SubQuaternion"}
Plain == {<<"none", "none">>}

Quaternions == Batches(QuaternionClasses, QPool, SelfSeeds, Plain)
OtherQuaternions == Batches(QuaternionClasses, QPool, OtherSeeds, Plain)
Vectors == Batches({"Vector3d"}, VPool, OtherSeeds, Plain)
Millers == Batches({"Miller"}, VPool, OtherSeeds, {<<"cubic", "hkl">>, <<"hexagonal", "uvw">>})
\* An operand that is neither a Quaternion nor a Vector3d: a bare ndarray.
Unsupported == Batches({"ndarray"}, VPool, OtherSeeds, Plain)

NoResult == Raised("none")

Init ==
    /\ self \in Quaternions
    /\ other \in OtherQuaternions \cup Vectors \cup Millers \cup Unsupported
    /\ pc = "idle"
    /\ op = <<>>
    /\ lazy = FALSE
    /\ chunk_size = 1
    /\ res = NoResult
    /\ arr = <<>>
    /\ stored = {}
    /\ heap = <<>>
    /\ objs = <<>>
    /\ arrays = <<>>
    /\ writes = 0
    /\ NoExtra

\* r = ~q: the caller takes the inverse of self as the next operand.
Invert ==
    /\ pc = "idle"
    /\ other' = invert_batch(self)
    /\ op' = Append(op, "invert")
    /\ pc' = "inverted"
    /\ UNCHANGED <<self, lazy, chunk_size, res, arr, stored, heap, objs, arrays, writes, extra>>

\* self * other
Mul ==
    /\ pc \in {"idle", "inverted"}
    /\ res' = mul(self, other)
    /\ op' = Append(op, "mul")
    /\ pc' = "done"
    /\ UNCHANGED <<self, other, lazy, chunk_size, arr, stored, heap, objs, arrays, writes, extra>>

\* self.outer(other, lazy=lzy, chunk_size=c)
Outer ==
    /\ pc = "idle"
    /\ \E lzy \in BOOLEAN, c \in 1 .. MaxChunk :
          /\ lzy \/ c = 1    \* chunk_size is read on the lazy path only
          /\ lazy' = lzy
          /\ chunk_size' = c
          /\ arr' = outer_buffer(arr, self, other, lzy, c)
          /\ res' = outer(self, other, lzy, arr')
    /\ op' = Append(op, "outer")
    /\ pc' = "done"
    /\ UNCHANGED <<self, other, stored, heap, objs, arrays, writes, extra>>

Next == Invert \/ Mul \/ Outer

Spec == Init /\ [][Next]_vars

----------------------------------------------------------------------------
(* Properties of Quaternion.__mul__, Quaternion.outer and                  *)
(* Quaternion.__invert__, checked under Spec.                              *)

Called(name) == pc = "done" /\ op # <<>> /\ op[Len(op)] = name

Supported(x) == IsQuaternion(x) \/ IsVector3d(x)

\* Some axis of shape is cut by c into more than one chunk, the last one
\* shorter than c.
RaggedChunks(shape, c) ==
    \E k \in 1 .. Len(shape) : shape[k] > c /\ shape[k] % c # 0

\* C1: for every chunk_size and every pair of navigation shapes, the lazy
\* outer product of two quaternion batches returns the array the dense
\* outer product returns, element by element (and as the same class).
C1_LazyOuterEqualsDense ==
    (Called("outer") /\ lazy /\ IsQuaternion(other)) =>
        LET dense == outer_dense(self, other)
        IN  /\ res.status = "ok"
            /\ dense.status = "ok"
            /\ res.value.cls = dense.value.cls
            /\ SameArray(res.value, dense.value)

\* C1 witness: a lazy quaternion outer product has returned for operands
\* where an axis is not a multiple of chunk_size and another axis is
\* shorter than chunk_size.
C1_Witness ==
    /\ Called("outer") /\ lazy /\ IsQuaternion(other)
    /\ res.status = "ok"
    /\ RaggedChunks(self.shape, chunk_size)
    /\ \E k \in 1 .. Len(other.shape) : other.shape[k] < chunk_size
    /\ Len(self.shape) = 2

\* C2: the lazy and the dense outer product of a quaternion batch with a
\* vector batch return the same rotated vectors, also for quaternions that
\* are not of unit norm (stated here for batches without a zero quaternion).
C2_LazyVectorOuterEqualsDense ==
    (Called("outer") /\ lazy /\ IsVector3d(other) /\ ~HasZeroNorm(self)) =>
        LET dense == outer_dense(self, other)
        IN  /\ res.status = "ok"
            /\ dense.status = "ok"
            /\ SameArray(res.value, dense.value)

\* The Hamilton product as the class docstring writes it.
DocstringProduct(q1, q2) ==
    LET a1 == q1.num[1]  b1 == q1.num[2]  c1 == q1.num[3]  d1 == q1.num[4]
        a2 == q2.num[1]  b2 == q2.num[2]  c2 == q2.num[3]  d2 == q2.num[4]
    IN  [num |-> << a1 * a2 - b1 * b2 - c1 * c2 - d1 * d2,
                    a1 * b2 + b1 * a2 + c1 * d2 - d1 * c2,
                    a1 * c2 - b1 * d2 + c1 * a2 + d1 * b2,
                    a1 * d2 + b1 * c2 - c1 * b2 + d1 * a2 >>,
         den |-> q1.den * q2.den]

\* C3: outer of a quaternion batch of shape S1 with one of shape S2 returns
\* a batch of shape S1 + S2 whose element (i, j) is the Hamilton product
\* self[i] * other[j] of the class docstring, self on the left; in both
\* modes.
C3_OuterIsPairwiseHamiltonProduct ==
    (Called("outer") /\ IsQuaternion(other)) =>
        /\ res.status = "ok"
        /\ res.value.shape = self.shape \o other.shape
        /\ Len(res.value.data) = Size(self.shape) * Size(other.shape)
        /\ \A i \in Indices(self.shape), j \in Indices(other.shape) :
              SameValue(At(res.value, i \o j),
                        DocstringProduct(At(self, i), At(other, j)))

\* C3 witness: a dense outer product of two batches with two navigation
\* axes each, holding elements that do not commute, has returned.
C3_Witness ==
    /\ Called("outer") /\ ~lazy /\ IsQuaternion(other)
    /\ res.status = "ok"
    /\ self.shape = <<2, 2>>
    /\ other.shape = <<1, 3>>
    /\ \E i \in Indices(self.shape), j \in Indices(other.shape) :
          ~SameValue(DocstringProduct(At(self, i), At(other, j)),
                     DocstringProduct(At(other, j), At(self, i)))

\* C6: the result of q1 * q2 and of q1.outer(q2), dense or lazy, is an
\* instance of the class of the right-hand operand q2, whatever the class
\* of q1.
C6_ResultHasClassOfRightOperand ==
    ((Called("mul") \/ Called("outer")) /\ IsQuaternion(other) /\ res.status = "ok") =>
        res.value.cls = other.cls

\* C6 witness: a product of a Quaternion with an instance of a subclass has
\* been returned.
C6_Witness ==
    /\ Called("mul") /\ op = <<"mul">>
    /\ self.cls = "Quaternion"
    /\ other.cls = "SubQuaternion"
    /\ res.status = "ok"

\* C7: Quaternion * Vector3d fails whenever the navigation shapes of the
\* quaternion and of the vector differ; it never returns a broadcast
\* result.
C7_MulVectorRejectsShapeMismatch ==
    (Called("mul") /\ IsVector3d(other) /\ self.shape # other.shape) =>
        res.status # "ok"

\* C8: with a Miller operand, q * m and q.outer(m), dense or lazy, return
\* an instance of the operand's class with the operand's phase and
\* coordinate_format, and leave the operand as it was.
C8_MillerMetadataPreserved ==
    [][(pc # "done" /\ pc' = "done" /\ IsMiller(other)) =>
          /\ other' = other
          /\ res'.status = "ok" =>
                /\ res'.value.cls = other.cls
                /\ res'.value.phase = other.phase
                /\ res'.value.coordinate_format = other.coordinate_format]_vars

\* C8 witness: a lazy outer product with a Miller whose coordinate format
\* is not the constructor's default has returned.
C8_Witness ==
    /\ Called("outer") /\ lazy
    /\ IsMiller(other)
    /\ other.coordinate_format = "uvw"
    /\ res.status = "ok"
    /\ res.value.phase = "hexagonal"

\* C9: outer with an operand that is neither a Quaternion nor a Vector3d
\* raises NotImplementedError in both modes, returns nothing and has
\* allocated no output buffer; __mul__ with such an operand returns
\* NotImplemented.
C9_UnsupportedOperandRejected ==
    (pc = "done" /\ ~Supported(other)) =>
        /\ Called("outer") => (res = Raised("NotImplementedError") /\ arr = <<>>)
        /\ Called("mul") => res = Raised("NotImplemented")

\* C9 witness: a lazy outer call with an ndarray operand has ended.
C9_Witness ==
    /\ Called("outer") /\ lazy
    /\ other.cls = "ndarray"
    /\ res.status = "NotImplementedError"

IsIdentityUpToSign(q) ==
    \/ SameValue(q, Elem(<<1, 0, 0, 0>>))
    \/ SameValue(q, Elem(<<-1, 0, 0, 0>>))

\* C10: for every batch q without a zero quaternion, unit norm or not,
\* every element of q * ~q is the identity quaternion up to sign.
C10_MulByInverseIsIdentity ==
    (pc = "done" /\ op = <<"invert", "mul">> /\ ~HasZeroNorm(self)) =>
        /\ res.status = "ok"
        /\ res.value.shape = self.shape
        /\ \A p \in 1 .. Len(res.value.data) : IsIdentityUpToSign(res.value.data[p])

\* C10 witness: q * ~q has been computed for a batch that holds a
\* quaternion of squared norm 15.
C10_Witness ==
    /\ pc = "done" /\ op = <<"invert", "mul">>
    /\ ~HasZeroNorm(self)
    /\ \E p \in 1 .. Len(self.data) : SumSq(self.data[p].num) = 15
    /\ res.status = "ok"

----------------------------------------------------------------------------
(* The lazy outer product step by step: outer allocates the buffer, the   *)
(* scheduler runs the store task of every output block in any order, and  *)
(* outer returns when da.store has returned.                              *)

StoreSelves == Batches({"Quaternion"}, QPool, {0, 2}, Plain)
StoreOthers ==
    Batches({"Quaternion"}, QPool, {2}, Plain)
        \cup Batches({"Vector3d"}, VPool, {2}, Plain)
        \cup Batches({"Miller"}, VPool, {0}, {<<"cubic", "hkl">>})
        \cup Batches({"ndarray"}, VPool, {0}, Plain)

InitStore ==
    /\ self \in StoreSelves
    /\ other \in StoreOthers
    /\ Size(self.shape) * Size(other.shape) <= MaxCells
    /\ pc = "idle"
    /\ op = <<>>
    /\ lazy = FALSE
    /\ chunk_size = 1
    /\ res = NoResult
    /\ arr = <<>>
    /\ stored = {}
    /\ heap = <<>>
    /\ objs = <<>>
    /\ arrays = <<>>
    /\ writes = 0
    /\ NoExtra

\* outer(other, lazy=True, chunk_size=c) with a supported operand: the
\* graph is built and the output buffer allocated.
StartStore ==
    /\ pc = "idle"
    /\ Supported(other)
    /\ \E c \in 1 .. MaxChunk : chunk_size' = c
    /\ lazy' = TRUE
    /\ arr' = empty(self.shape \o other.shape)
    /\ stored' = {}
    /\ op' = Append(op, "outer")
    /\ pc' = "storing"
    /\ UNCHANGED <<self, other, res, heap, objs, arrays, writes, extra>>

\* outer(other, lazy=True) with an unsupported operand.
RejectOperand ==
    /\ pc = "idle"
    /\ ~Supported(other)
    /\ lazy' = TRUE
    /\ res' = outer(self, other, TRUE, arr)
    /\ op' = Append(op, "outer")
    /\ pc' = "done"
    /\ UNCHANGED <<self, other, chunk_size, arr, stored, heap, objs, arrays, writes, extra>>

\* A worker runs the store task of one block that has not run yet.
StoreBlock ==
    /\ pc = "storing"
    /\ \E blk \in Blocks(self.shape \o other.shape, chunk_size) \ stored :
          /\ arr' = store_block(arr, self, other, chunk_size, blk)
          /\ stored' = stored \cup {blk}
    /\ UNCHANGED <<self, other, pc, op, lazy, chunk_size, res, heap, objs, arrays, writes, extra>>

\* da.store returns once every task has run, and outer wraps the buffer.
ReturnOuter ==
    /\ pc = "storing"
    /\ stored = Blocks(self.shape \o other.shape, chunk_size)
    /\ res' = outer_lazy_result(self, other, arr)
    /\ pc' = "done"
    /\ UNCHANGED <<self, other, op, lazy, chunk_size, arr, stored, heap, objs, arrays, writes, extra>>

NextStore == StartStore \/ RejectOperand \/ StoreBlock \/ ReturnOuter

SpecStore == InitStore /\ [][NextStore]_vars

\* The rotated vector as the class docstring writes it.
DocstringRotation(q, v) ==
    LET a == q.num[1]  b == q.num[2]  c == q.num[3]  d == q.num[4]
        x == v.num[1]  y == v.num[2]  z == v.num[3]
    IN  [num |-> << x * (a * a + b * b - c * c - d * d)
                        + 2 * (z * (a * c + b * d) + y * (b * c - a * d)),
                    y * (a * a - b * b + c * c - d * d)
                        + 2 * (x * (a * d + b * c) + z * (c * d - a * b)),
                    z * (a * a - b * b - c * c + d * d)
                        + 2 * (y * (a * b + c * d) + x * (b * d - a * c)) >>,
         den |-> q.den * q.den * v.den]

\* The value of output cell p: that of the pair (i, j) it stands for.
OwnValue(p) ==
    LET m == Unravel(p - 1, self.shape \o other.shape)
        q1 == At(self, SubSeq(m, 1, Len(self.shape)))
        x2 == At(other, LastN(m, Len(other.shape)))
    IN  IF IsQuaternion(other) THEN DocstringProduct(q1, x2)
        ELSE DocstringRotation(q1, x2)

\* C4: the blocks partition the output index space; while the tasks run,
\* in whatever order, the written cells are exactly those of the blocks
\* stored so far and each holds the value of its own pair; and when outer
\* has returned every block has been stored and every cell of the result
\* holds the value of its own pair.
C4_EveryCellWrittenWithOwnValue ==
    LET shape == self.shape \o other.shape
        blocks == Blocks(shape, chunk_size)
        BlocksOf(m) == {blk \in blocks : InBlock(m, blk, shape, chunk_size)}
    IN  /\ pc = "storing" =>
              /\ \A m \in Indices(shape) : Cardinality(BlocksOf(m)) = 1
              /\ Len(arr) = Size(shape)
              /\ \A p \in 1 .. Len(arr) :
                    IF BlocksOf(Unravel(p - 1, shape)) \subseteq stored
                    THEN SameValue(arr[p], OwnValue(p))
                    ELSE arr[p] = Uninit
        /\ (pc = "done" /\ Supported(other)) =>
              /\ stored = blocks
              /\ res.status = "ok"
              /\ Len(res.value.data) = Size(shape)
              /\ \A p \in 1 .. Len(res.value.data) :
                    /\ res.value.data[p] # Uninit
                    /\ SameValue(res.value.data[p], OwnValue(p))

\* C4 witness: outer has returned after four store tasks, two of them for
\* the shorter last chunk of an axis of length 3 cut by chunk_size 2.
C4_Witness ==
    /\ pc = "done"
    /\ res.status = "ok"
    /\ self.shape = <<3>>
    /\ other.shape = <<3>>
    /\ chunk_size = 2
    /\ Cardinality(stored) = 4

----------------------------------------------------------------------------
(* Object3d instances and the numpy buffers behind them.                   *)
(*                                                                         *)
(* A buffer is a sequence of rows of `dim` numbers.  A view (the _data of  *)
(* an instance, or an ndarray the caller holds) names a buffer, the rows   *)
(* of it the view shows, in the C order of the view's navigation index,    *)
(* and the navigation shape.                                               *)

dim == 4

View(buf, rows, shape) == [buf |-> buf, rows |-> rows, shape |-> shape]

\* Object3d.data read through view v on heap h.
Data(h, v) == [p \in 1 .. Len(v.rows) |-> h[v.buf][v.rows[p]]]

\* numpy hands out a view of a reshaped array when the rows, read in C
\* order, are evenly strided along every axis of the new shape, and a copy
\* otherwise.
RECURSIVE Offset(_, _)
Offset(idx, strides) ==
    IF idx = <<>> THEN 0
    ELSE Head(idx) * Head(strides) + Offset(Tail(idx), Tail(strides))

Strided(rows, shape) ==
    \E strides \in [1 .. Len(shape) -> (-Len(rows)) .. Len(rows)] :
        \A idx \in Indices(shape) :
            rows[Ravel(idx, shape) + 1] = rows[1] + Offset(idx, strides)

\* rows as a view when numpy can express it, else as a copy in a new
\* buffer; gives <<heap, view>>.
ViewOrCopy(h, v, rows, shape) ==
    IF Strided(rows, shape)
    THEN <<h, View(v.buf, rows, shape)>>
    ELSE <<Append(h, [p \in 1 .. Len(rows) |-> h[v.buf][rows[p]]]),
           View(Len(h) + 1, [p \in 1 .. Len(rows) |-> p], shape)>>

\* Object3d.__init__(data) with data an Object3d: _data = data.data, and
\* with data an ndarray: _data = np.atleast_2d(data).  Neither copies.
init_view(v) == View(v.buf, v.rows, v.shape)

\* Object3d.__getitem__ with an integer key: data[key] is a view of slab
\* key of the first axis; atleast_2d gives a lone element the shape (1,).
getitem_int(v, key) ==
    LET inner == Tail(v.shape)
        n == Size(inner)
    IN  View(v.buf, SubSeq(v.rows, key * n + 1, (key + 1) * n),
             IF inner = <<>> THEN <<1>> ELSE inner)

\* Object3d.__getitem__ with the slice key lo: (a view).
getitem_slice(v, lo) ==
    LET n == Size(Tail(v.shape))
    IN  View(v.buf, SubSeq(v.rows, lo * n + 1, Len(v.rows)),
             <<Head(v.shape) - lo>> \o Tail(v.shape))

\* Object3d.__getitem__ with a boolean mask that is True everywhere:
\* advanced indexing copies the selected elements into a new array.
getitem_mask(h, v) ==
    <<Append(h, Data(h, v)),
      View(Len(h) + 1, [p \in 1 .. Len(v.rows) |-> p], <<Len(v.rows)>>)>>

\* Object3d.reshape(*shape)
reshape(h, v, shape) == ViewOrCopy(h, v, v.rows, shape)

\* Object3d.squeeze: the axes of length one are dropped (a view).
squeeze(v) ==
    LET kept == SelectSeq(v.shape, LAMBDA n : n # 1)
    IN  View(v.buf, v.rows, IF kept = <<>> THEN <<1>> ELSE kept)

Reverse(s) == [k \in 1 .. Len(s) |-> s[Len(s) + 1 - k]]

\* Object3d.flatten: _data.T.reshape(real_dim, -1).T reads the elements
\* with the first navigation axis running fastest.
flatten(h, v) ==
    LET n == Len(v.rows)
        rows == [p \in 1 .. n |->
                    v.rows[Ravel(Reverse(Unravel(p - 1, Reverse(v.shape))), v.shape) + 1]]
    IN  ViewOrCopy(h, v, rows, <<n>>)

\* Object3d.transpose() of an object with two navigation axes: a view with
\* the two axes swapped.
transpose(v) ==
    LET shape == Reverse(v.shape)
    IN  View(v.buf,
             [p \in 1 .. Len(v.rows) |->
                 v.rows[Ravel(Reverse(Unravel(p - 1, shape)), v.shape) + 1]],
             shape)

\* An in-place write through view v: value goes to the components cols of
\* the elements at the given positions of the view.
WriteRows(h, v, positions, cols, value) ==
    LET touched == {v.rows[p] : p \in positions}
    IN  [h EXCEPT ![v.buf] =
            [r \in 1 .. Len(h[v.buf]) |->
                IF r \in touched
                THEN [k \in 1 .. dim |-> IF k \in cols THEN value ELSE h[v.buf][r][k]]
                ELSE h[v.buf][r]]]

\* The component setters a, b, c, d: self.data[..., k] = value.
set_component(h, v, k, value) == WriteRows(h, v, 1 .. Len(v.rows), {k}, value)

\* The data setter: self._data[..., :dim] = data.
set_data(h, v, value) == WriteRows(h, v, 1 .. Len(v.rows), 1 .. dim, value)

\* Object3d.__setitem__ with an integer key: self.data[key] = value.data.
setitem(h, v, key, value) ==
    LET n == Size(Tail(v.shape))
    IN  WriteRows(h, v, (key * n + 1) .. ((key + 1) * n), 1 .. dim, value)

----------------------------------------------------------------------------
(* A caller that holds one ndarray, builds instances from it and from one *)
(* another, and writes through them in place.                              *)

\* The last call: a write through instance obj, or a call that returned
\* the new instance obj ("new") or the instance obj it was made on ("same").
Op(kind, obj) == [kind |-> kind, obj |-> obj]

InitOwn ==
    /\ \E shape \in Shapes :
          /\ heap = << [r \in 1 .. Size(shape) |-> [k \in 1 .. dim |-> 0]] >>
          /\ arrays = << View(1, [p \in 1 .. Size(shape) |-> p], shape) >>
    /\ objs = <<>>
    /\ writes = 0
    /\ NoExtra
    /\ op = Op("none", 0)
    /\ pc = "idle"
    /\ self = NoResult.value
    /\ other = NoResult.value
    /\ lazy = FALSE
    /\ chunk_size = 1
    /\ res = NoResult
    /\ arr = <<>>
    /\ stored = {}

Idle == UNCHANGED <<self, other, pc, lazy, chunk_size, res, arr, stored, extra>>

\* The call returns the new instance v, and the heap becomes h.
Bind(h, v) ==
    /\ Len(objs) < MaxObjs
    /\ heap' = h
    /\ objs' = Append(objs, v)
    /\ op' = Op("new", Len(objs) + 1)
    /\ UNCHANGED <<arrays, writes>>
    /\ Idle

\* cls(array)
ConstructFromArray ==
    \E a \in DOMAIN arrays : Bind(heap, init_view(arrays[a]))

\* cls(instance)
ConstructFromInstance ==
    \E o \in DOMAIN objs : Bind(heap, init_view(objs[o]))

\* instance[key]
GetItem ==
    \E o \in DOMAIN objs :
        \/ \E key \in 0 .. (Head(objs[o].shape) - 1) :
              Bind(heap, init_view(getitem_int(objs[o], key)))
        \/ \E lo \in 0 .. (Head(objs[o].shape) - 1) :
              Bind(heap, init_view(getitem_slice(objs[o], lo)))
        \/ LET hv == getitem_mask(heap, objs[o])
           IN  Bind(hv[1], init_view(hv[2]))

\* instance.reshape(*shape)
Reshape ==
    \E o \in DOMAIN objs, shape \in Shapes :
        /\ Size(shape) = Len(objs[o].rows)
        /\ LET hv == reshape(heap, objs[o], shape)
           IN  Bind(hv[1], hv[2])

\* instance.squeeze()
Squeeze ==
    \E o \in DOMAIN objs : Bind(heap, squeeze(init_view(objs[o])))

\* instance.flatten()
Flatten ==
    \E o \in DOMAIN objs :
        LET hv == flatten(heap, objs[o])
        IN  Bind(hv[1], hv[2])

\* instance.transpose(): an object with one navigation axis is returned as
\* it is, one with two has its axes swapped in a new instance.
Transpose ==
    \E o \in DOMAIN objs :
        IF Len(objs[o].shape) = 1
        THEN /\ op' = Op("same", o)
             /\ UNCHANGED <<heap, objs, arrays, writes>>
             /\ Idle
        ELSE Bind(heap, init_view(transpose(objs[o])))

\* An in-place write through instance o leaves heap h.
Write(kind, o, h) ==
    /\ writes < MaxWrites
    /\ heap' = h
    /\ writes' = writes + 1
    /\ op' = Op(kind, o)
    /\ UNCHANGED <<objs, arrays>>
    /\ Idle

\* instance.a = value (and b, c, d)
SetComponent ==
    \E o \in DOMAIN objs, k \in 1 .. dim :
        Write("set_component", o, set_component(heap, objs[o], k, writes + 1))

\* instance.data = value
SetData ==
    \E o \in DOMAIN objs : Write("set_data", o, set_data(heap, objs[o], writes + 1))

\* instance[key] = value
SetItem ==
    \E o \in DOMAIN objs :
        \E key \in 0 .. (Head(objs[o].shape) - 1) :
            Write("setitem", o, setitem(heap, objs[o], key, writes + 1))

NextOwn ==
    \/ ConstructFromArray
    \/ ConstructFromInstance
    \/ GetItem
    \/ Reshape
    \/ Squeeze
    \/ Flatten
    \/ Transpose
    \/ SetComponent
    \/ SetData
    \/ SetItem

SpecOwn == InitOwn /\ [][NextOwn]_vars

\* C5: an in-place write through one instance (a component setter, the
\* data setter, a slice assignment) never changes the data seen through
\* another instance or through the array an instance was built from.
C5_DerivedObjectsOwnTheirStorage ==
    [][writes' = writes + 1 =>
          /\ \A n \in DOMAIN objs :
                n # op'.obj => Data(heap', objs[n]) = Data(heap, objs[n])
          /\ \A a \in DOMAIN arrays : Data(heap', arrays[a]) = Data(heap, arrays[a])]_vars

----------------------------------------------------------------------------
(* Quaternion.identity, Quaternion.triple_cross and products of three      *)
(* operands.                                                               *)

\* A shape argument as the caller gives it: an int n, or a tuple dims.
IntArg(n) == [kind |-> "int", n |-> n, dims |-> <<>>]
TupleArg(dims) == [kind |-> "tuple", n |-> 0, dims |-> dims]

\* shape = (shape,) if isinstance(shape, int) else shape
ShapeOf(a) == IF a.kind = "int" THEN <<a.n>> ELSE a.dims

\* identity with the 1 written to the last component.
identity_last(cls, a) ==
    LET shape == ShapeOf(a)
    IN  Returned(Object3d_init(cls,
            [shape |-> shape, data |-> [p \in 1 .. Size(shape) |-> Elem(<<0, 0, 0, 1>>)]]))

\* Quaternion.identity: q = np.zeros(shape + (4,)); q[..., 0] = 1; cls(q).
identity(cls, a) ==
    LET shape == ShapeOf(a)
    IN  Returned(Object3d_init(cls,
            [shape |-> shape, data |-> [p \in 1 .. Size(shape) |-> Elem(<<1, 0, 0, 0>>)]]))

\* The four polynomials of triple_cross on one triple of elements.
triple_cross_element(q1, q2, q3e) ==
    LET q1a == q1.num[1]  q1b == q1.num[2]  q1c == q1.num[3]  q1d == q1.num[4]
        q2a == q2.num[1]  q2b == q2.num[2]  q2c == q2.num[3]  q2d == q2.num[4]
        q3a == q3e.num[1]  q3b == q3e.num[2]  q3c == q3e.num[3]  q3d == q3e.num[4]
    IN  [num |-> << q1b * q2c * q3d - q1b * q3c * q2d - q2b * q1c * q3d
                        + q2b * q3c * q1d + q3b * q1c * q2d - q3b * q2c * q1d,
                    q1a * q3c * q2d - q1a * q2c * q3d + q2a * q1c * q3d
                        - q2a * q3c * q1d - q3a * q1c * q2d + q3a * q2c * q1d,
                    q1a * q2b * q3d - q1a * q3b * q2d - q2a * q1b * q3d
                        + q2a * q3b * q1d + q3a * q1b * q2d - q3a * q2b * q1d,
                    q1a * q3b * q2c - q1a * q2b * q3c + q2a * q1b * q3c
                        - q2a * q3b * q1c - q3a * q1b * q2c + q3a * q2b * q1c >>,
         den |-> q1.den * q2.den * q3e.den]

\* Quaternion.triple_cross.  The component arrays a, b, c, d have the
\* navigation shape S of the operands; np.vstack joins them along the first
\* axis (a 1-d array counting as one row), so (a, b, c, d) stacked has 4 rows
\* for S = (n,) and 4 * S[0] rows otherwise, and .T makes that the last
\* axis, which cls() requires to be dim.
triple_cross(cls, q1, q2, q3b) ==
    LET S == q1.shape
        rows == IF Len(S) = 1 THEN 4 ELSE 4 * Head(S)
        shape == IF Len(S) = 1 THEN S
                 ELSE [k \in 1 .. Len(S) - 1 |-> S[Len(S) + 1 - k]]
    IN  IF rows # 4 THEN Raised("DimensionError")
        ELSE Returned(Object3d_init(cls,
                 [shape |-> shape,
                  data |-> [p \in 1 .. Size(shape) |->
                               LET j == Unravel(p - 1, shape)
                                   i == IF Len(S) = 1 THEN j
                                        ELSE <<0>> \o [k \in 1 .. Len(j) |-> j[Len(j) + 1 - k]]
                               IN  triple_cross_element(At(q1, i), At(q2, i), At(q3b, i))]]))

\* Unit quaternions with rational components.
UnitQPool ==
    << [num |-> <<1, 2, 2, 4>>, den |-> 5], [num |-> <<1, 1, 1, 1>>, den |-> 2],
       [num |-> <<0, -3, 0, 4>>, den |-> 5], [num |-> <<2, -1, 0, 2>>, den |-> 3] >>

\* n elements of pool, starting at position seed and wrapping.
FillFrom(pool, seed, n) == [p \in 1 .. n |-> pool[((seed + p - 1) % Len(pool)) + 1]]

UnitQuaternions ==
    {Instance("Quaternion", sh, FillFrom(UnitQPool, seed, Size(sh)), "none", "none") :
        sh \in Shapes, seed \in 0 .. (Len(UnitQPool) - 1)}

AlgSelves == UnitQuaternions \cup Batches({"Quaternion"}, QPool, {2, 4}, Plain)
AlgOthers ==
    Batches({"SubQuaternion"}, QPool, {1, 2}, Plain)
        \cup Batches({"Vector3d"}, VPool, {0, 2}, Plain)
        \cup Batches({"Miller"}, VPool, {1}, {<<"cubic", "hkl">>})
AlgThirds == Batches({"Quaternion"}, QPool, {2, 4}, Plain)

ShapeArgs == {IntArg(n) : n \in 1 .. MaxAxis} \cup {TupleArg(sh) : sh \in Shapes}

InitAlg ==
    /\ self \in AlgSelves
    /\ other \in {o \in AlgOthers : o.shape = self.shape}
    /\ q3 \in {t \in AlgThirds : t.shape = self.shape}
    /\ pc = "idle"
    /\ op = <<>>
    /\ lazy = FALSE
    /\ chunk_size = 1
    /\ res = NoResult
    /\ arr = <<>>
    /\ stored = {}
    /\ heap = <<>>
    /\ objs = <<>>
    /\ arrays = <<>>
    /\ writes = 0
    /\ shape_arg = <<>>
    /\ q_acc = <<>>
    /\ r_draw = <<>>
    /\ u_idx = <<>>
    /\ u_inv = <<>>
    /\ warned = <<>>

AlgFrame == UNCHANGED <<lazy, chunk_size, arr, stored, heap, objs, arrays, writes,
                        q_acc, r_draw, u_idx, u_inv, warned>>

\* self = Quaternion.identity(shape)
Identity ==
    /\ pc = "idle"
    /\ \E a \in ShapeArgs :
          /\ shape_arg' = a
          /\ self' = identity("Quaternion", a).value
    /\ op' = Append(op, "identity")
    /\ pc' = "made"
    /\ UNCHANGED <<other, q3, res>>
    /\ AlgFrame

\* self * other with a vector operand.
MulVector ==
    /\ pc \in {"idle", "made"}
    /\ IsVector3d(other)
    /\ res' = mul(self, other)
    /\ op' = Append(op, "mul")
    /\ pc' = "done"
    /\ UNCHANGED <<self, other, q3, shape_arg>>
    /\ AlgFrame

\* (self * other) * q3
MulChain ==
    /\ pc = "idle"
    /\ IsQuaternion(other)
    /\ res' = mul(mul(self, other).value, q3)
    /\ op' = <<"mul", "mul">>
    /\ pc' = "done"
    /\ UNCHANGED <<self, other, q3, shape_arg>>
    /\ AlgFrame

\* Quaternion.triple_cross(self, other, q3)
TripleCross ==
    /\ pc = "idle"
    /\ IsQuaternion(other)
    /\ res' = triple_cross("Quaternion", self, other, q3)
    /\ op' = Append(op, "triple_cross")
    /\ pc' = "done"
    /\ UNCHANGED <<self, other, q3, shape_arg>>
    /\ AlgFrame

NextAlg == Identity \/ MulVector \/ MulChain \/ TripleCross

SpecAlg == InitAlg /\ [][NextAlg]_vars

----------------------------------------------------------------------------
(* Properties of the products and class methods, checked under SpecAlg.    *)

\* C11: for every triple q1, q2, q3 of quaternion batches of one shape,
\* (q1 * q2) * q3 and q1 * (q2 * q3) are the same array, component by
\* component.
C11_MulIsAssociative ==
    (pc = "done" /\ op = <<"mul", "mul">>) =>
        LET right == mul(self, mul(other, q3).value)
        IN  /\ res.status = "ok"
            /\ right.status = "ok"
            /\ SameArray(res.value, right.value)

\* C11 witness: a product of three batches of shape (2, 2) has been
\* computed whose first two factors do not commute.
C11_Witness ==
    /\ pc = "done" /\ op = <<"mul", "mul">>
    /\ res.status = "ok"
    /\ self.shape = <<2, 2>>
    /\ \E p \in 1 .. Len(self.data) :
          ~SameValue(quaternion_multiply(self.data[p], other.data[p]),
                     quaternion_multiply(other.data[p], self.data[p]))

\* C12: Quaternion.identity(shape) has the requested shape, an int n
\* standing for (n,), and holds (1, 0, 0, 0) everywhere; and its product
\* with a vector batch of that shape is the vector batch itself.
C12_IdentityLeavesVectorsUnchanged ==
    /\ (op # <<>> /\ op[1] = "identity") =>
          /\ self.shape = (IF shape_arg.kind = "int" THEN <<shape_arg.n>> ELSE shape_arg.dims)
          /\ Len(self.data) = Size(self.shape)
          /\ \A p \in 1 .. Len(self.data) : self.data[p] = Elem(<<1, 0, 0, 0>>)
    /\ (pc = "done" /\ op = <<"identity", "mul">> /\ self.shape = other.shape) =>
          /\ res.status = "ok"
          /\ res.value.cls = other.cls
          /\ SameArray(res.value, other)

\* C12 witness: identity(3) times a vector batch of shape (3,) has been
\* computed.
C12_Witness ==
    /\ pc = "done" /\ op = <<"identity", "mul">>
    /\ shape_arg = IntArg(3)
    /\ other.shape = <<3>>
    /\ res.status = "ok"

IsUnit(q) == q.den # 0 /\ SumSq(q.num) = q.den * q.den

\* The squared Euclidean norms of vectors x and y are equal.
SameNorm(x, y) ==
    /\ x.den # 0
    /\ y.den # 0
    /\ (x.num[1] * x.num[1] + x.num[2] * x.num[2] + x.num[3] * x.num[3]) * y.den * y.den
           = (y.num[1] * y.num[1] + y.num[2] * y.num[2] + y.num[3] * y.num[3]) * x.den * x.den

\* C13: for a batch q of unit quaternions and a vector batch v of the same
\* shape, every vector of q * v has the Euclidean norm of the vector of v it
\* was rotated from.
C13_RotationPreservesNorm ==
    (pc = "done" /\ op = <<"mul">> /\ IsVector3d(other)
        /\ \A p \in 1 .. Len(self.data) : IsUnit(self.data[p])) =>
        /\ res.status = "ok"
        /\ Len(res.value.data) = Len(other.data)
        /\ \A p \in 1 .. Len(other.data) : SameNorm(res.value.data[p], other.data[p])

\* C13 witness: a batch of unit quaternions with non-integer components
\* has rotated a vector batch and moved one of its vectors.
C13_Witness ==
    /\ pc = "done" /\ op = <<"mul">> /\ IsVector3d(other)
    /\ \A p \in 1 .. Len(self.data) : IsUnit(self.data[p]) /\ self.data[p].den > 1
    /\ Len(self.data) > 1
    /\ res.status = "ok"
    /\ \E p \in 1 .. Len(other.data) : ~SameValue(res.value.data[p], other.data[p])

Negated(q) == [num |-> [k \in 1 .. Len(q.num) |-> -q.num[k]], den |-> q.den]

\* s * x + y on elements with denominator 1.
Combined(s, x, y) == Elem([k \in 1 .. 4 |-> s * x.num[k] + y.num[k]])

\* C14: triple_cross returns a batch of the operands' shape in which, for
\* every triple of elements, exchanging two arguments negates the result,
\* two equal arguments give the zero quaternion, and the result is linear
\* in each argument.
C14_TripleCrossAntisymmetricTrilinear ==
    (pc = "done" /\ op = <<"triple_cross">>) =>
        /\ res.status = "ok"
        /\ res.value.shape = self.shape
        /\ Len(res.value.data) = Len(self.data)
        /\ \A p \in 1 .. Len(self.data) :
              LET x == self.data[p]
                  y == other.data[p]
                  z == q3.data[p]
                  t == res.value.data[p]
              IN  /\ SameValue(triple_cross_element(y, x, z), Negated(t))
                  /\ SameValue(triple_cross_element(z, y, x), Negated(t))
                  /\ SameValue(triple_cross_element(x, z, y), Negated(t))
                  /\ SameValue(triple_cross_element(x, x, z), Elem(<<0, 0, 0, 0>>))
                  /\ SameValue(triple_cross_element(x, y, y), Elem(<<0, 0, 0, 0>>))
                  /\ SameValue(triple_cross_element(x, y, x), Elem(<<0, 0, 0, 0>>))
                  /\ x.den = 1 =>
                        /\ SameValue(triple_cross_element(Combined(3, x, z), y, z),
                                     Combined(3, t, triple_cross_element(z, y, z)))
                        /\ SameValue(triple_cross_element(x, Combined(-2, y, x), z),
                                     Combined(-2, t, triple_cross_element(x, x, z)))
                        /\ SameValue(triple_cross_element(x, y, Combined(2, z, y)),
                                     Combined(2, t, triple_cross_element(x, y, y)))

\* C14 witness: triple_cross has been called on batches of shape (2, 2)
\* and has raised DimensionError.
C14_Witness ==
    /\ pc = "done" /\ op = <<"triple_cross">>
    /\ self.shape = <<2, 2>>
    /\ res.status = "DimensionError"

----------------------------------------------------------------------------
(* Quaternion.axis *)

\* np.sqrt on the squares the inputs of the model produce.
Isqrt(n) == CHOOSE k \in 0 .. n : k * k = n

Sign(n) == IF n > 0 THEN 1 ELSE IF n < 0 THEN -1 ELSE 0

SumSq3(t) == t[1] * t[1] + t[2] * t[2] + t[3] * t[3]

\* 1e-6 is 1 / AxisFlipInverse.
AxisFlipInverse == 1000000

\* self.a < -1e-6 for the element q = num / den.
a_is_zero(q) == q.num[1] * AxisFlipInverse < -q.den

\* Quaternion.axis on one element: the vector part, negated where
\* a < -1e-6, replaced by zvector * sign(a) where its norm is 0, and then
\* divided by its norm (the denominator of q cancels; a norm of 0 leaves
\* 0 / 0).
axis_element(q) ==
    LET v == <<q.num[2], q.num[3], q.num[4]>>
        f == IF a_is_zero(q) THEN <<-v[1], -v[2], -v[3]>> ELSE v
        w == IF SumSq3(f) = 0 THEN <<0, 0, Sign(q.num[1])>> ELSE f
    IN  [num |-> w, den |-> Isqrt(SumSq3(w))]

\* Quaternion.axis
axis(slf) ==
    Returned(Object3d_init("Vector3d",
        [shape |-> slf.shape,
         data |-> [p \in 1 .. Len(slf.data) |-> axis_element(slf.data[p])]]))

\* Quaternions whose vector part has norm 0, 3 or 5 times 1 / den, with
\* a above, at and below -1e-6.
AxisPool ==
    << Elem(<<1, 0, 0, 0>>),
       [num |-> <<-20, 3, 4, 0>>, den |-> 10000000],
       [num |-> <<1, 2, 1, 2>>, den |-> 4],
       [num |-> <<-10, 3, 4, 0>>, den |-> 10000000],
       Elem(<<-1, 0, 0, 0>>),
       [num |-> <<-2, 2, -1, 2>>, den |-> 3],
       [num |-> <<-1, 0, 0, 0>>, den |-> 10000000],
       [num |-> <<0, 0, -3, 4>>, den |-> 5],
       Elem(<<0, 0, 0, 0>>) >>

AxisSelves ==
    {Instance(cls, sh, FillFrom(AxisPool, seed, Size(sh)), "none", "none") :
        cls \in QuaternionClasses, sh \in Shapes, seed \in 0 .. (Len(AxisPool) - 1)}

InitAxis ==
    /\ self \in AxisSelves
    /\ other = <<>>
    /\ pc = "idle"
    /\ op = <<>>
    /\ lazy = FALSE
    /\ chunk_size = 1
    /\ res = NoResult
    /\ arr = <<>>
    /\ stored = {}
    /\ heap = <<>>
    /\ objs = <<>>
    /\ arrays = <<>>
    /\ writes = 0
    /\ NoExtra

\* self.axis
Axis ==
    /\ pc = "idle"
    /\ res' = axis(self)
    /\ op' = Append(op, "axis")
    /\ pc' = "done"
    /\ UNCHANGED <<self, other, lazy, chunk_size, arr, stored, heap, objs, arrays, writes, extra>>

NextAxis == Axis

SpecAxis == InitAxis /\ [][NextAxis]_vars

\* The axis of the claim for the element q: the vector part, negated
\* exactly when a < -1e-6, or the z unit vector times the sign of a when the
\* vector part is zero.
AxisDirection(q) ==
    LET v == <<q.num[2], q.num[3], q.num[4]>>
    IN  IF SumSq3(v) = 0 THEN <<0, 0, Sign(q.num[1])>>
        ELSE IF q.num[1] * 1000000 < -q.den THEN <<-v[1], -v[2], -v[3]>>
        ELSE v

\* Vector x is finite and is the direction d scaled by a positive number.
IsNormalized(x, d) ==
    /\ x.den > 0
    /\ SumSq3(x.num) = x.den * x.den
    /\ x.num[1] * d[2] = x.num[2] * d[1]
    /\ x.num[1] * d[3] = x.num[3] * d[1]
    /\ x.num[2] * d[3] = x.num[3] * d[2]
    /\ x.num[1] * d[1] + x.num[2] * d[2] + x.num[3] * d[3] > 0

\* C15: axis returns a Vector3d of the shape of self whose every element
\* has norm 1 and is the normalized vector part, negated exactly when
\* a < -1e-6, or the z unit vector times the sign of a when the vector part
\* is zero; for every quaternion, a zero vector part with a = 0 included.
C15_AxisIsUnitVector ==
    (pc = "done" /\ op = <<"axis">>) =>
        /\ res.status = "ok"
        /\ res.value.shape = self.shape
        /\ Len(res.value.data) = Len(self.data)
        /\ \A p \in 1 .. Len(self.data) :
              IsNormalized(res.value.data[p], AxisDirection(self.data[p]))

\* C15 witness: axis has been taken of a batch that holds the zero
\* quaternion, and the element it returned for it is not finite.
C15_Witness ==
    /\ pc = "done" /\ op = <<"axis">>
    /\ \E p \in 1 .. Len(self.data) :
          /\ self.data[p] = Elem(<<0, 0, 0, 0>>)
          /\ res.value.data[p].den = 0

----------------------------------------------------------------------------
(* Quaternion.random                                                       *)
(*                                                                         *)
(* A candidate row of r is [num, exp]: the four components num * 10^-exp.  *)

RECURSIVE Pow10(_)
Pow10(k) == IF k = 0 THEN 1 ELSE 10 * Pow10(k - 1)

\* 1e-9**2 is 10^-EpsSquaredExp.
EpsSquaredExp == 18

\* Each round draws Oversample * n candidates.
Oversample == 3

\* accepted with the lower bound included.
accepted_inclusive(c) ==
    LET m == SumSq(c.num)
        e == 2 * c.exp
    IN  /\ IF e < EpsSquaredExp THEN m >= 1 ELSE m >= Pow10(e - EpsSquaredExp)
        /\ IF e >= 10 THEN TRUE ELSE m <= Pow10(e)

\* np.logical_and(1e-9**2 < r2, r2 <= 1) for the row c, whose squared norm
\* r2 is m * 10^-e.  Below e = 18 any m >= 1 exceeds 10^-18; from e = 10 on
\* every m the model holds is below 10^e.
accepted(c) ==
    LET m == SumSq(c.num)
        e == 2 * c.exp
    IN  /\ IF e < EpsSquaredExp THEN m >= 1 ELSE m > Pow10(e - EpsSquaredExp)
        /\ IF e >= 10 THEN TRUE ELSE m <= Pow10(e)

\* Object3d.unit on one row: data / norm, a norm of 0 giving 0 by
\* nan_to_num.  The power of ten of the row cancels.
unit_element(c) ==
    IF SumSq(c.num) = 0 THEN Elem(<<0, 0, 0, 0>>)
    ELSE [num |-> c.num, den |-> Isqrt(SumSq(c.num))]

\* The end of random: cls(np.array(q[:n])).unit.reshape(*shape).
random_result(cls, a, q) ==
    LET shape == ShapeOf(a)
        n == Size(shape)
    IN  Returned(Object3d_init(cls,
            [shape |-> shape, data |-> [p \in 1 .. n |-> unit_element(q[p])]]))

\* Rows np.random.uniform(-1, 1) can draw: squared norm 1, above 1,
\* 10^-18, and 25 * 10^-18.
Candidates ==
    { [num |-> <<-1, 0, 0, 0>>, exp |-> 0],
      [num |-> <<9, 9, 0, 0>>, exp |-> 1],
      [num |-> <<1, 0, 0, 0>>, exp |-> 9],
      [num |-> <<0, 3, -4, 0>>, exp |-> 9] }

RandomArgs == {IntArg(1), IntArg(2), TupleArg(<<1, 2>>)}

InitRandom ==
    /\ self = <<>>
    /\ other = <<>>
    /\ pc = "idle"
    /\ op = <<>>
    /\ lazy = FALSE
    /\ chunk_size = 1
    /\ res = NoResult
    /\ arr = <<>>
    /\ stored = {}
    /\ heap = <<>>
    /\ objs = <<>>
    /\ arrays = <<>>
    /\ writes = 0
    /\ q3 = <<>>
    /\ shape_arg \in RandomArgs
    /\ q_acc = <<>>
    /\ r_draw = <<>>
    /\ u_idx = <<>>
    /\ u_inv = <<>>
    /\ warned = <<>>

RandomFrame ==
    UNCHANGED <<self, other, lazy, chunk_size, arr, stored, heap, objs, arrays, writes,
                q3, shape_arg, u_idx, u_inv, warned>>

\* n = int(np.prod(shape))
RandomN == Size(ShapeOf(shape_arg))

\* Quaternion.random(shape) is called: q = [].
Random ==
    /\ pc = "idle"
    /\ pc' = "loop"
    /\ op' = Append(op, "random")
    /\ UNCHANGED <<res, q_acc, r_draw>>
    /\ RandomFrame

\* np.random.uniform produces the next of the 3 * n rows of r; a round
\* starts only while len(q) < n.
DrawRow(c) ==
    /\ pc = "loop"
    /\ Len(r_draw) < Oversample * RandomN
    /\ r_draw # <<>> \/ Len(q_acc) < RandomN
    /\ r_draw' = Append(r_draw, c)
    /\ UNCHANGED <<pc, op, res, q_acc>>
    /\ RandomFrame

Draw == \E c \in Candidates : DrawRow(c)

\* A draw of a row that the filter will keep.
DrawAccepted == \E c \in {x \in Candidates : accepted(x)} : DrawRow(c)

\* r = r[accepted]; q += list(r)
Extend ==
    /\ pc = "loop"
    /\ Len(r_draw) = Oversample * RandomN
    /\ q_acc' = q_acc \o SelectSeq(r_draw, accepted)
    /\ r_draw' = <<>>
    /\ UNCHANGED <<pc, op, res>>
    /\ RandomFrame

\* The loop ends with len(q) >= n and the batch is built and returned.
ReturnRandom ==
    /\ pc = "loop"
    /\ r_draw = <<>>
    /\ Len(q_acc) >= RandomN
    /\ res' = random_result("Quaternion", shape_arg, q_acc)
    /\ pc' = "done"
    /\ UNCHANGED <<op, q_acc, r_draw>>
    /\ RandomFrame

NextRandom == Random \/ Draw \/ Extend \/ ReturnRandom

SpecRandom == InitRandom /\ [][NextRandom]_vars

\* The generator keeps producing rows, the steps of random are taken, and
\* rows that pass the filter keep being drawn.
FairSpecRandom ==
    /\ SpecRandom
    /\ WF_vars(Random)
    /\ WF_vars(Draw)
    /\ WF_vars(Extend)
    /\ WF_vars(ReturnRandom)
    /\ SF_vars(DrawAccepted)

\* The squared norm of row c is above 10^-18 and at most 1.
InAcceptanceRange(c) ==
    LET m == SumSq(c.num)
    IN  /\ m > 0
        /\ c.exp >= 9 => m > Pow10(2 * c.exp - 18)
        /\ c.exp < 5 => m <= Pow10(2 * c.exp)

\* C16: random terminates when accepted rows keep being drawn; q grows
\* only by the accepted rows of a complete round of 3 * n rows, in the order
\* they were drawn; and the batch returned has the requested shape and holds
\* the first n accepted rows, each scaled to norm 1.
C16_RandomReturnsUnitBatch ==
    /\ [][q_acc' # q_acc =>
             /\ Len(q_acc) < RandomN
             /\ Len(r_draw) = 3 * RandomN
             /\ q_acc' = q_acc \o SelectSeq(r_draw, InAcceptanceRange)]_vars
    /\ [](pc = "done" =>
             /\ res.status = "ok"
             /\ res.value.shape = ShapeOf(shape_arg)
             /\ Len(res.value.data) = RandomN
             /\ Len(q_acc) >= RandomN
             /\ \A p \in 1 .. RandomN :
                   /\ InAcceptanceRange(q_acc[p])
                   /\ IsUnit(res.value.data[p])
                   /\ res.value.data[p].num = q_acc[p].num)
    /\ (pc = "loop") ~> (pc = "done")

\* C16 witness: random((1, 2)) has returned after a round that accepted
\* nothing and a round that accepted more rows than requested.
C16_Witness ==
    /\ pc = "done"
    /\ shape_arg = TupleArg(<<1, 2>>)
    /\ Len(q_acc) = 3
    /\ res.status = "ok"
    /\ res.value.data[2].den = 5

----------------------------------------------------------------------------
(* Object3d on numpy arrays with their last axis                           *)
(*                                                                         *)
(* An array is [shape, data]: the full shape, last axis included, and the  *)
(* numbers in C order.  A number is an integer count of 10^-11.  An object *)
(* is [cls, _data].                                                        *)

Front(s) == SubSeq(s, 1, Len(s) - 1)
Last(s) == s[Len(s)]

Obj(cls, buf) == [cls |-> cls, _data |-> buf]
IsObject(x) == "cls" \in DOMAIN x

\* np.atleast_2d
atleast_2d(a) ==
    IF Len(a.shape) = 0 THEN [shape |-> <<1, 1>>, data |-> a.data]
    ELSE IF Len(a.shape) = 1 THEN [shape |-> <<1>> \o a.shape, data |-> a.data]
    ELSE a

\* a[..., :n]
take_columns(a, n) ==
    LET s == Front(a.shape) \o <<Min(n, Last(a.shape))>>
    IN  [shape |-> s, data |-> [p \in 1 .. Size(s) |-> At(a, Unravel(p - 1, s))]]

\* Object3d.data with the slice left out.
Object3d_data_unsliced(o) == o._data

\* Object3d.data
Object3d_data(o) == take_columns(o._data, dim)

\* Object3d.shape
Object3d_shape(o) == Front(Object3d_data(o).shape)

\* Object3d.ndim
Object3d_ndim(o) == Len(Object3d_shape(o))

\* Object3d.size
Object3d_size(o) == Size(Object3d_shape(o))

\* DimensionError(this, data): the message names the class, this.dim and
\* data.shape[-1].
DimensionError(cls, a) ==
    [status |-> "DimensionError",
     message |-> <<cls, "requires data of dimension", dim,
                   "but received dimension", Last(a.shape)>>]

\* Object3d.__init__ that accepts every trailing dimension.
init_unchecked(cls, x) ==
    IF IsObject(x) THEN Returned(Obj(cls, Object3d_data(x)))
    ELSE Returned(Obj(cls, atleast_2d(x)))

\* Object3d.__init__
__init__(cls, x) ==
    IF IsObject(x) THEN Returned(Obj(cls, Object3d_data(x)))
    ELSE LET a == atleast_2d(x)
         IN  IF Last(a.shape) # dim THEN DimensionError(cls, a)
             ELSE Returned(Obj(cls, a))

\* Keys of __getitem__ and __setitem__: an integer, a slice lo:hi, a tuple
\* of integers, a boolean mask (an array of booleans), and a tuple of index
\* arrays given as the sequence of multi-indices it selects.
IntKey(k) == [kind |-> "int", k |-> k]
SliceKey(lo, hi) == [kind |-> "slice", lo |-> lo, hi |-> hi]
TupleKey(ks) == [kind |-> "tuple", ks |-> ks]
MaskKey(mask) == [kind |-> "mask", mask |-> mask]
ArrayKey(ms) == [kind |-> "arrays", ms |-> ms]

\* A negative index counts from the end of an axis of length n.
Wrap(k, n) == IF k < 0 THEN k + n ELSE k

\* First-axis range [lo, hi) that an integer or slice key selects in an
\* axis of length n; the bounds of a slice are clipped to the axis.
KeyLo(key, n) ==
    IF key.kind = "int" THEN Wrap(key.k, n) ELSE Max(0, Min(Wrap(key.lo, n), n))
KeyHi(key, n) ==
    IF key.kind = "int" THEN Wrap(key.k, n) + 1
    ELSE Max(KeyLo(key, n), Min(Wrap(key.hi, n), n))

\* a[k1, ..., kL] for a tuple of integers.
index_tuple(a, ks) ==
    LET L == Len(ks)
        w == [t \in 1 .. L |-> Wrap(ks[t], a.shape[t])]
        rest == Size(SubSeq(a.shape, L + 1, Len(a.shape)))
    IN  IF L > Len(a.shape) THEN Raised("IndexError")
        ELSE IF \E t \in 1 .. L : ~(w[t] \in 0 .. a.shape[t] - 1) THEN Raised("IndexError")
        ELSE Returned([shape |-> SubSeq(a.shape, L + 1, Len(a.shape)),
                       data |-> SubSeq(a.data, Ravel(w, SubSeq(a.shape, 1, L)) * rest + 1,
                                       (Ravel(w, SubSeq(a.shape, 1, L)) + 1) * rest)])

\* The blocks of `size` numbers of data that mask keeps, from block p on.
RECURSIVE KeptBlocks(_, _, _, _)
KeptBlocks(data, mask, size, p) ==
    IF p > Len(mask) THEN <<>>
    ELSE (IF mask[p] THEN SubSeq(data, (p - 1) * size + 1, p * size) ELSE <<>>)
         \o KeptBlocks(data, mask, size, p + 1)

\* a[mask] for a boolean array over the leading axes of a.
index_mask(a, mask) ==
    LET L == Len(mask.shape)
        rest == SubSeq(a.shape, L + 1, Len(a.shape))
    IN  IF L > Len(a.shape) \/ mask.shape # SubSeq(a.shape, 1, L) THEN Raised("IndexError")
        ELSE Returned([shape |-> <<Cardinality({p \in 1 .. Len(mask.data) : mask.data[p]})>> \o rest,
                       data |-> KeptBlocks(a.data, mask.data, Size(rest), 1)])

\* a[key]; an integer outside the axis and a mask of another shape are an
\* IndexError.
index_array(a, key) ==
    LET n == Head(a.shape)
        rest == Size(Tail(a.shape))
        d == Last(a.shape)
    IN  IF key.kind = "arrays" THEN
            Returned([shape |-> <<Len(key.ms), d>>,
                      data |-> [p \in 1 .. Len(key.ms) * d |->
                                  At(a, key.ms[(p - 1) \div d + 1] \o <<(p - 1) % d>>)]])
        ELSE IF key.kind = "tuple" THEN index_tuple(a, key.ks)
        ELSE IF key.kind = "mask" THEN index_mask(a, key.mask)
        ELSE IF key.kind = "int" /\ ~(KeyLo(key, n) \in 0 .. n - 1) THEN Raised("IndexError")
        ELSE Returned([shape |-> IF key.kind = "int" THEN Tail(a.shape)
                                 ELSE <<KeyHi(key, n) - KeyLo(key, n)>> \o Tail(a.shape),
                       data |-> SubSeq(a.data, KeyLo(key, n) * rest + 1, KeyHi(key, n) * rest)])

\* __getitem__ that slices the storage buffer in place of the data.
getitem_from_buffer(o, key) ==
    LET r == index_array(o._data, key)
    IN  IF r.status # "ok" THEN r ELSE __init__(o.cls, atleast_2d(r.value))

\* Object3d.__getitem__
__getitem__(o, key) ==
    LET r == index_array(Object3d_data(o), key)
    IN  IF r.status # "ok" THEN r ELSE __init__(o.cls, atleast_2d(r.value))

\* Object3d.__setitem__: self.data[key] = value.data writes through the
\* view into the first dim columns of _data, value.data broadcast to the
\* selected part.  The result is self afterwards.
__setitem__(o, key, value) ==
    LET buf == o._data
        n == Head(buf.shape)
        lo == KeyLo(key, n)
        hi == KeyHi(key, n)
        target == IF key.kind = "int" THEN Tail(Object3d_data(o).shape)
                  ELSE <<hi - lo>> \o Tail(Object3d_data(o).shape)
        v == Object3d_data(value)
    IN  IF key.kind = "int" /\ ~(lo \in 0 .. n - 1) THEN Raised("IndexError")
        ELSE IF ~(Broadcastable(target, v.shape) /\ BroadcastShape(target, v.shape) = target)
             THEN Raised("ValueError")
        ELSE Returned(Obj(o.cls,
               [shape |-> buf.shape,
                data |-> [p \in 1 .. Size(buf.shape) |->
                    LET m == Unravel(p - 1, buf.shape)
                        t == IF key.kind = "int" THEN Tail(m) ELSE <<m[1] - lo>> \o Tail(m)
                    IN  IF m[1] >= lo /\ m[1] < hi /\ Last(m) < dim
                        THEN At(v, BroadcastIndex(t, v.shape))
                        ELSE buf.data[p]]]))

\* np.stack(sequence, axis=-2) of arrays of one shape.
stack_arrays(bufs) ==
    LET s0 == bufs[1].shape
        s == Front(s0) \o <<Len(bufs), Last(s0)>>
    IN  [shape |-> s,
         data |-> [p \in 1 .. Size(s) |->
                     LET m == Unravel(p - 1, s)
                         j == m[Len(m) - 1]
                     IN  At(bufs[j + 1], SubSeq(m, 1, Len(m) - 2) \o <<Last(m)>>)]]

\* Object3d.stack
Object3d_stack(cls, sequence) ==
    LET bufs == [k \in 1 .. Len(sequence) |-> sequence[k]._data]
    IN  IF \E k \in 1 .. Len(bufs) : bufs[k].shape # bufs[1].shape THEN Raised("ValueError")
        ELSE LET stacked == stack_arrays(bufs)
                 r == __init__(cls, take_columns(stacked, dim))
             IN  IF r.status # "ok" THEN r ELSE Returned(Obj(cls, stacked))

\* a.T.reshape(d, -1).T: one row per entry, the first axis running fastest.
flatten_array(a) ==
    LET nav == Front(a.shape)
        s == <<Size(nav), Last(a.shape)>>
    IN  [shape |-> s,
         data |-> [p \in 1 .. Size(s) |->
                     LET m == Unravel(p - 1, s)
                     IN  At(a, Reverse(Unravel(m[1], Reverse(nav))) \o <<m[2]>>)]]

\* Object3d.flatten
Object3d_flatten(o) ==
    LET r == __init__(o.cls, flatten_array(Object3d_data(o)))
    IN  IF r.status # "ok" THEN r ELSE Returned(Obj(o.cls, flatten_array(o._data)))

\* np.squeeze
squeeze_array(a) ==
    [shape |-> SelectSeq(a.shape, LAMBDA n : n # 1), data |-> a.data]

\* Object3d.squeeze
Object3d_squeeze(o) ==
    LET r == __init__(o.cls, o)
    IN  IF r.status # "ok" THEN r
        ELSE Returned(Obj(o.cls, atleast_2d(squeeze_array(o._data))))

\* Object3d.reshape: data.reshape(*shape, dim) needs the sizes to agree, and
\* _data.reshape(*shape, -1) cannot infer -1 next to a zero.
Object3d_reshape(o, newshape) ==
    IF Size(newshape) * dim # Size(Object3d_data(o).shape) THEN Raised("ValueError")
    ELSE IF Size(newshape) = 0 THEN Raised("ValueError")
    ELSE Returned(Obj(o.cls,
            [shape |-> newshape \o <<Size(o._data.shape) \div Size(newshape)>>,
             data |-> o._data.data]))

\* a.transpose(*axes): axis t of the result is axis axes[t] of a (0-based).
transpose_array(a, axes) ==
    LET s == [t \in 1 .. Len(axes) |-> a.shape[axes[t] + 1]]
    IN  [shape |-> s,
         data |-> [p \in 1 .. Size(s) |->
                     LET j == Unravel(p - 1, s)
                     IN  At(a, [k \in 1 .. Len(s) |->
                                  j[CHOOSE t \in 1 .. Len(s) : axes[t] + 1 = k]])]]

\* transpose that, like ndarray.transpose, reverses the axes when none are
\* given, whatever their number.
transpose_reversing(o, axes) ==
    LET n == Object3d_ndim(o)
        ax == IF axes = <<>> THEN [t \in 1 .. n |-> n - t] ELSE axes
    IN  IF n = 1 THEN Returned(o)
        ELSE IF Len(ax) # n \/ {ax[t] : t \in 1 .. Len(ax)} # 0 .. n - 1 THEN Raised("ValueError")
        ELSE __init__(o.cls, transpose_array(Object3d_data(o), ax \o <<n>>))

\* Object3d.transpose
Object3d_transpose(o, axes) ==
    LET n == Object3d_ndim(o)
    IN  IF n = 1 THEN Returned(o)
        ELSE IF axes = <<>> /\ n # 2 THEN Raised("ValueError")
        ELSE LET ax == IF axes = <<>> THEN <<1, 0>> ELSE axes
             IN  IF Len(ax) # n THEN Raised("ValueError")
                 ELSE IF {ax[t] : t \in 1 .. n} # 0 .. n - 1 THEN Raised("ValueError")
                 ELSE __init__(o.cls, transpose_array(Object3d_data(o), ax \o <<n>>))

\* get_random_sample with the positions unravelled first axis fastest.
sample_column_major(o, size, sample) ==
    IF size > Object3d_size(o) THEN Raised("ValueError")
    ELSE __getitem__(o, ArrayKey([i \in 1 .. Len(sample) |->
                                     Reverse(Unravel(sample[i], Reverse(Object3d_shape(o))))]))

\* Object3d.get_random_sample, sample being what rng.choice returned.
Object3d_get_random_sample(o, size, sample) ==
    IF size > Object3d_size(o) THEN Raised("ValueError")
    ELSE __getitem__(o, ArrayKey([i \in 1 .. Len(sample) |->
                                     Unravel(sample[i], Object3d_shape(o))]))

\* Rows of a two-dimensional array, and the array of a sequence of rows of
\* length d.
Rows(a) ==
    [r \in 1 .. Head(a.shape) |-> SubSeq(a.data, (r - 1) * Last(a.shape) + 1, r * Last(a.shape))]

FromRows(rows, d) ==
    [shape |-> <<Len(rows), d>>,
     data |-> [p \in 1 .. Len(rows) * d |-> rows[((p - 1) \div d) + 1][((p - 1) % d) + 1]]]

\* 10^-10 in counts of 10^-11: the step of round(10).
RoundStep == 10

\* np.isclose's absolute tolerance 10^-8 in counts of 10^-11.
Atol == 1000

\* x.round(10): to the nearest multiple of 10^-10, halves to the even one.
round(x) ==
    LET k == x \div RoundStep
        r == x % RoundStep
    IN  IF 2 * r < RoundStep THEN k * RoundStep
        ELSE IF 2 * r > RoundStep THEN (k + 1) * RoundStep
        ELSE IF k % 2 = 0 THEN k * RoundStep ELSE (k + 1) * RoundStep

\* A test for exact zero in place of np.isclose(x, 0).
is_zero(x) == x = 0

\* np.isclose(x, 0)
isclose0(x) == x <= Atol /\ -x <= Atol

\* Lexicographic order of rows, the order of np.unique(axis=0).
RECURSIVE LexLess(_, _)
LexLess(r1, r2) ==
    IF r1 = <<>> THEN FALSE
    ELSE Head(r1) < Head(r2) \/ (Head(r1) = Head(r2) /\ LexLess(Tail(r1), Tail(r2)))

\* 0-based position of the first occurrence of row r in rows.
FirstIndex(rows, r) == (CHOOSE j \in 1 .. Len(rows) :
                            rows[j] = r /\ \A k \in 1 .. j - 1 : rows[k] # r) - 1

\* np.unique(rows, axis=0, return_index=True, return_inverse=True): the
\* distinct rows in sorted order, where each first occurs, and for each row
\* its place among the distinct rows.
np_unique(rows) ==
    LET U == {rows[j] : j \in 1 .. Len(rows)}
        Rank(r) == Cardinality({u \in U : LexLess(u, r)})
        sorted == [i \in 1 .. Cardinality(U) |-> CHOOSE u \in U : Rank(u) = i - 1]
    IN  [values |-> sorted,
         idx |-> [i \in 1 .. Cardinality(U) |-> FirstIndex(rows, sorted[i])],
         inv |-> [j \in 1 .. Len(rows) |-> Rank(rows[j])]]

\* np.sort of a sequence of distinct integers.
np_sort(s) ==
    [i \in 1 .. Len(s) |->
        CHOOSE x \in {s[j] : j \in 1 .. Len(s)} :
            Cardinality({s[j] : j \in 1 .. Len(s)} \cap (0 .. x - 1)) = i - 1]

\* The rows unique works on: the flattened _data rounded, without the rows
\* whose entries are all close to zero.
unique_rows(o) ==
    LET flat == Rows(Object3d_flatten(o).value._data)
        rounded == [j \in 1 .. Len(flat) |-> [c \in 1 .. Len(flat[j]) |-> round(flat[j][c])]]
    IN  SelectSeq(rounded, LAMBDA r : ~(\A c \in 1 .. Len(r) : isclose0(r[c])))

\* Object3d.unique: obj, idx and inv.
Object3d_unique(o) ==
    LET rows == unique_rows(o)
        u == np_unique(rows)
        order == np_sort(u.idx)
        kept == FromRows([i \in 1 .. Len(order) |-> rows[order[i] + 1]], Last(o._data.shape))
        r == __init__(o.cls, take_columns(kept, dim))
    IN  IF r.status # "ok" THEN [obj |-> r, idx |-> u.idx, inv |-> u.inv]
        ELSE [obj |-> Returned(Obj(o.cls, kept)), idx |-> u.idx, inv |-> u.inv]

\* Rows of four numbers: two values in decreasing order, the zero row, a
\* row that rounds to the first, a nonzero row within 10^-8 of zero, a row
\* that rounds to zero, and the second value again.
RowPool ==
    << <<2000000, 0, 0, 0>>, <<1000000, 0, 0, 0>>, <<0, 0, 0, 0>>,
       <<2000004, 0, 0, 0>>, <<0, 900, 0, 0>>, <<0, 0, 3, 0>>,
       <<1000000, 0, 0, 0>> >>

\* The extra trailing column a subtype keeps in _data, by row.
ExtraPool == <<5000000, -5000000, 5000000>>

\* n rows of the given width taken round the pool from seed on.
FillRows(seed, n, width) ==
    [k \in 1 .. n |->
        LET row == RowPool[((seed + k - 1) % Len(RowPool)) + 1]
        IN  IF width = dim THEN row
            ELSE row \o <<ExtraPool[((seed + k - 1) % Len(ExtraPool)) + 1]>>]

ObjShapes == {<<4>>, <<2, 2>>, <<1, 2>>, <<2, 1, 2>>}

ObjSeeds == {0, 3}

\* Objects as the constructor and the subtypes leave them: _data has dim
\* columns, or one more.
ObjSelves ==
    {Obj("Quaternion",
         [shape |-> s \o <<w>>, data |-> FromRows(FillRows(seed, Size(s), w), w).data]) :
        s \in ObjShapes, seed \in ObjSeeds, w \in {dim, dim + 1}}

\* One entry that broadcasts to every selection.
ObjValues ==
    {Obj("Quaternion", [shape |-> <<1, dim>>, data |-> <<3000000, 0, 0, 4000000>>])}

\* Array-likes handed to the constructor, scalars and lists included.
ArrayLikes ==
    {[shape |-> s, data |-> [p \in 1 .. Size(s) |-> p * 1000000]] :
        s \in {<<>>, <<3>>, <<4>>, <<5>>, <<2, 4>>, <<2, 3>>, <<4, 1>>, <<1, 2, 4>>, <<2, 2, 5>>}}

Keys == {IntKey(0), IntKey(2), SliceKey(1, 3), SliceKey(2, 2)}

NewShapes == {<<4>>, <<2, 2>>, <<2>>, <<2, 1, 2>>}

AxesArgs == {<<>>, <<1, 0>>, <<2, 0, 1>>, <<0>>, <<0, 0>>}

\* Longest chain of operations followed.
MaxOps == 2

InitObj ==
    /\ self \in ObjSelves
    /\ other = <<>>
    /\ pc = "idle"
    /\ op = <<>>
    /\ lazy = FALSE
    /\ chunk_size = 1
    /\ res = NoResult
    /\ arr = <<>>
    /\ stored = {}
    /\ heap = <<>>
    /\ objs = <<>>
    /\ arrays = <<>>
    /\ writes = 0
    /\ q3 \in ObjValues
    /\ shape_arg = <<>>
    /\ q_acc = <<>>
    /\ r_draw = <<>>
    /\ u_idx = <<>>
    /\ u_inv = <<>>
    /\ warned = <<>>

ObjFrame ==
    UNCHANGED <<op, lazy, chunk_size, arr, stored, heap, objs, arrays,
                q3, q_acc, r_draw, warned>>

\* One operation `name` applied to `operand` gave r: an object it returned
\* is the one the next operation is applied to; an error leaves the object
\* as it was.  writes counts the operations so far and shape_arg keeps the
\* key, axes or sample of the call.
Applied(name, operand, arg, r) ==
    /\ writes < MaxOps
    /\ pc' = name
    /\ shape_arg' = arg
    /\ writes' = writes + 1
    /\ other' = operand
    /\ res' = r
    /\ self' = IF r.status = "ok" THEN r.value ELSE self
    /\ ObjFrame

Construct ==
    /\ \E x \in ArrayLikes \cup {self} : Applied("__init__", x, <<>>, __init__("Quaternion", x))
    /\ UNCHANGED <<u_idx, u_inv>>

GetItemObj ==
    /\ \E key \in Keys : Applied("__getitem__", self, key, __getitem__(self, key))
    /\ UNCHANGED <<u_idx, u_inv>>

SetItemObj ==
    /\ \E key \in Keys, value \in {q3, self} :
          Applied("__setitem__", self, <<>>, __setitem__(self, key, value))
    /\ UNCHANGED <<u_idx, u_inv>>

StackObj ==
    /\ \E sequence \in {<<self, self>>, <<self, q3>>, <<self>>} :
          Applied("stack", self, <<>>, Object3d_stack("Quaternion", sequence))
    /\ UNCHANGED <<u_idx, u_inv>>

FlattenObj ==
    /\ Applied("flatten", self, <<>>, Object3d_flatten(self))
    /\ UNCHANGED <<u_idx, u_inv>>

UniqueObj ==
    /\ Applied("unique", self, <<>>, Object3d_unique(self).obj)
    /\ u_idx' = Object3d_unique(self).idx
    /\ u_inv' = Object3d_unique(self).inv

SqueezeObj ==
    /\ Applied("squeeze", self, <<>>, Object3d_squeeze(self))
    /\ UNCHANGED <<u_idx, u_inv>>

ReshapeObj ==
    /\ \E newshape \in NewShapes : Applied("reshape", self, <<>>, Object3d_reshape(self, newshape))
    /\ UNCHANGED <<u_idx, u_inv>>

TransposeObj ==
    /\ \E axes \in AxesArgs : Applied("transpose", self, axes, Object3d_transpose(self, axes))
    /\ UNCHANGED <<u_idx, u_inv>>

\* rng.choice(n, size, replace=False) returns `size` distinct positions;
\* the first two and the last one are followed.
GetRandomSample ==
    /\ \E size \in 1 .. 2 :
          \E sample \in [1 .. size -> {0, 1, Object3d_size(self) - 1}
                                         \cap (0 .. Max(Object3d_size(self), size) - 1)] :
             /\ \A i, j \in 1 .. size : i # j => sample[i] # sample[j]
             /\ Applied("get_random_sample", self, [size |-> size, sample |-> sample],
                        Object3d_get_random_sample(self, size, sample))
    /\ UNCHANGED <<u_idx, u_inv>>

NextObj ==
    \/ Construct
    \/ GetItemObj
    \/ SetItemObj
    \/ StackObj
    \/ FlattenObj
    \/ UniqueObj
    \/ SqueezeObj
    \/ ReshapeObj
    \/ TransposeObj
    \/ GetRandomSample

SpecObj == InitObj /\ [][NextObj]_vars

----------------------------------------------------------------------------
(* Claims about Object3d, checked under SpecObj. *)

\* C17: constructing a Quaternion from an array-like whose trailing
\* dimension is not 4 raises DimensionError, whose message names 4 and the
\* trailing dimension received, and yields no object; with a trailing
\* dimension of 4 it yields an object holding the array.
C17_WrongTrailingDimensionRaises ==
    [][(pc' = "__init__" /\ ~IsObject(other')) =>
          LET received == IF other'.shape = <<>> THEN 1 ELSE Last(other'.shape)
          IN  IF received # 4
              THEN /\ res'.status = "DimensionError"
                   /\ res'.message = <<"Quaternion", "requires data of dimension", 4,
                                       "but received dimension", received>>
                   /\ "value" \notin DOMAIN res'
                   /\ self' = self
              ELSE /\ res'.status = "ok"
                   /\ self' = res'.value
                   /\ self'.cls = "Quaternion"
                   /\ self'._data.data = other'.data
                   /\ Last(self'._data.shape) = 4]_vars

\* C17 witness: an array of shape (2, 3) was handed to Quaternion and
\* DimensionError was raised.
C17_Witness ==
    /\ pc = "__init__"
    /\ ~IsObject(other)
    /\ other.shape = <<2, 3>>
    /\ res.status = "DimensionError"

\* C18: whatever operations have been applied, the public data of the
\* object has a last axis of size dim and is the first dim columns of the
\* storage buffer, shape is the data shape without its last axis, and size
\* is the product of shape.
C18_PublicDataHasDimColumns ==
    LET d == Object3d_data(self)
        nav == Front(self._data.shape)
    IN  /\ Last(d.shape) = 4
        /\ d.shape = nav \o <<4>>
        /\ Len(d.data) = Size(nav) * 4
        /\ \A m \in Indices(d.shape) : At(d, m) = At(self._data, m)
        /\ Object3d_shape(self) = nav
        /\ Object3d_size(self) = Size(nav)
        /\ res.status = "ok" => res.value = self

\* C18 witness: two operations were applied, the second a stack, to an
\* object whose buffer has five columns.
C18_Witness ==
    /\ writes = 2
    /\ pc = "stack"
    /\ res.status = "ok"
    /\ Last(self._data.shape) = 5
    /\ Len(Object3d_shape(self)) = 3

\* The rows of array a after flatten, each entry rounded to 10 decimals.
RoundedRows(a) ==
    LET flat == Rows(flatten_array(a))
    IN  [j \in 1 .. Len(flat) |-> [c \in 1 .. Len(flat[j]) |-> round(flat[j][c])]]

\* Every entry of row r is within 10^-8 of zero.
NearZero(r) == \A c \in 1 .. Len(r) : r[c] \in -1000 .. 1000

\* The rows `out` are exactly the rows of R in `wanted`, each once, in the
\* order of their first occurrence in R.
DistinctInFirstOccurrenceOrder(out, R, wanted) ==
    /\ {out[i] : i \in 1 .. Len(out)} = wanted
    /\ \A i, k \in 1 .. Len(out) :
          i < k => out[i] # out[k] /\ FirstIndex(R, out[i]) < FirstIndex(R, out[k])

\* C19, as stated, for objects without extra columns: unique returns
\* exactly the distinct nonzero rows of the flattened data (rounded to 10
\* decimals), each once, in the order of their first occurrence.
C19_UniqueReturnsDistinctNonzeroRows ==
    (pc = "unique" /\ Last(other._data.shape) = 4) =>
        LET R == RoundedRows(Object3d_data(other))
        IN  /\ res.status = "ok"
            /\ DistinctInFirstOccurrenceOrder(Rows(Object3d_data(self)), R,
                   {R[j] : j \in 1 .. Len(R)} \ {<<0, 0, 0, 0>>})

\* C19, amended: unique returns exactly the distinct rows of the flattened
\* storage buffer (rounded to 10 decimals) that are not within 10^-8 of zero
\* in every entry, each once, in the order of their first occurrence.
C19_UniqueDropsRowsNearZero ==
    pc = "unique" =>
        LET R == RoundedRows(other._data)
        IN  /\ res.status = "ok"
            /\ self._data.shape = <<Len(Rows(self._data)), Last(other._data.shape)>>
            /\ DistinctInFirstOccurrenceOrder(Rows(self._data), R,
                   {R[j] : j \in 1 .. Len(R)} \ {r \in {R[j] : j \in 1 .. Len(R)} : NearZero(r)})

\* C19 witness: unique was applied to a 2 x 2 object holding a row, a
\* second row, the zero row and a row that rounds to the first, and returned
\* the first and the second row.
C19_Witness ==
    /\ pc = "unique"
    /\ other._data.shape = <<2, 2, 4>>
    /\ other._data.data = <<2000000, 0, 0, 0, 1000000, 0, 0, 0,
                            0, 0, 0, 0, 2000004, 0, 0, 0>>
    /\ Rows(self._data) = << <<2000000, 0, 0, 0>>, <<1000000, 0, 0, 0>> >>

\* C20, as stated: the idx and inv that unique returns agree with the
\* returned object and the flattened input (rounded to 10 decimals): row
\* idx[i] of the flattened input is row i of the returned object, and the
\* rows of the returned object at inv are the flattened input.
C20_IndexAndInverseAgreeWithObject ==
    (pc = "unique" /\ Last(other._data.shape) = 4) =>
        LET R == RoundedRows(Object3d_data(other))
            out == Rows(Object3d_data(self))
        IN  /\ Len(u_idx) = Len(out)
            /\ \A i \in 1 .. Len(u_idx) :
                  u_idx[i] \in 0 .. Len(R) - 1 /\ R[u_idx[i] + 1] = out[i]
            /\ Len(u_inv) = Len(R)
            /\ \A j \in 1 .. Len(u_inv) :
                  u_inv[j] \in 0 .. Len(out) - 1 /\ out[u_inv[j] + 1] = R[j]

\* C20 witness: unique was applied to the two distinct nonzero rows
\* (2e-5, 0, 0, 0), (1e-5, 0, 0, 0) and returned them in that order with
\* idx = (1, 0) and inv = (1, 0).
C20_Witness ==
    /\ pc = "unique"
    /\ Rows(other._data) = << <<2000000, 0, 0, 0>>, <<1000000, 0, 0, 0>> >>
    /\ Rows(self._data) = Rows(other._data)
    /\ u_idx = <<1, 0>>
    /\ u_inv = <<1, 0>>

C22_RandomSampleOfRequestedSize ==
    pc = "get_random_sample" =>
        LET size == shape_arg.size
            sample == shape_arg.sample
            n == Object3d_size(other)
            entries == Rows([shape |-> <<n, 4>>, data |-> Object3d_data(other).data])
        IN  IF size > n
            THEN res.status = "ValueError" /\ self = other
            ELSE /\ res.status = "ok"
                 /\ res.value.cls = other.cls
                 /\ Object3d_shape(res.value) = <<size>>
                 /\ Object3d_size(res.value) = size
                 /\ \A i \in 1 .. size :
                       /\ sample[i] \in 0 .. n - 1
                       /\ Rows(Object3d_data(res.value))[i] = entries[sample[i] + 1]
                 /\ \A i, j \in 1 .. size : i # j => sample[i] # sample[j]

\* C22 witness: two entries were drawn from a 2 x 2 object, the last one
\* first.
C22_Witness ==
    /\ pc = "get_random_sample"
    /\ Object3d_shape(other) = <<2, 2>>
    /\ shape_arg = [size |-> 2, sample |-> <<3, 1>>]
    /\ res.status = "ok"
    /\ Object3d_shape(self) = <<2>>

----------------------------------------------------------------------------
(* Slicing with every kind of key. *)

Masks ==
    {[shape |-> <<4>>, data |-> <<TRUE, FALSE, FALSE, TRUE>>],
     [shape |-> <<2>>, data |-> <<FALSE, TRUE>>],
     [shape |-> <<2>>, data |-> <<FALSE, FALSE>>],
     [shape |-> <<2, 2>>, data |-> <<TRUE, FALSE, TRUE, TRUE>>],
     [shape |-> <<1, 2>>, data |-> <<TRUE, TRUE>>]}

SliceKeys ==
    {IntKey(0), IntKey(1), IntKey(-1), IntKey(4), SliceKey(1, 3), SliceKey(0, 1),
     SliceKey(-1, 9), TupleKey(<<1>>), TupleKey(<<1, 0>>), TupleKey(<<0, -1>>),
     TupleKey(<<1, 0, 1>>)}
    \cup {MaskKey(mask) : mask \in Masks}

InitSlice == InitObj

\* obj[key]
Slice ==
    /\ pc = "idle"
    /\ \E key \in SliceKeys :
          /\ pc' = "__getitem__"
          /\ shape_arg' = key
          /\ other' = self
          /\ res' = __getitem__(self, key)
          /\ self' = IF res'.status = "ok" THEN res'.value ELSE self
    /\ UNCHANGED <<writes, u_idx, u_inv>>
    /\ ObjFrame

NextSlice == Slice

SpecSlice == InitSlice /\ [][NextSlice]_vars

\* Key `key` addresses navigation axes of shape nav only, inside them.
InNavigation(key, nav) ==
    CASE key.kind = "int" -> Wrap(key.k, nav[1]) \in 0 .. nav[1] - 1
      [] key.kind = "slice" -> TRUE
      [] key.kind = "tuple" ->
            /\ Len(key.ks) <= Len(nav)
            /\ \A t \in 1 .. Len(key.ks) : Wrap(key.ks[t], nav[t]) \in 0 .. nav[t] - 1
      [] key.kind = "mask" ->
            /\ Len(key.mask.shape) <= Len(nav)
            /\ key.mask.shape = SubSeq(nav, 1, Len(key.mask.shape))

\* Key `key` selects the entry at navigation index m.
Picks(key, m, nav) ==
    CASE key.kind = "int" -> m[1] = Wrap(key.k, nav[1])
      [] key.kind = "slice" -> m[1] >= Wrap(key.lo, nav[1]) /\ m[1] < Wrap(key.hi, nav[1])
      [] key.kind = "tuple" ->
            \A t \in 1 .. Len(key.ks) : m[t] = Wrap(key.ks[t], nav[t])
      [] key.kind = "mask" -> At(key.mask, SubSeq(m, 1, Len(key.mask.shape)))

\* The navigation axes that are left of nav under key.
Sliced(key, nav) ==
    CASE key.kind = "int" -> Tail(nav)
      [] key.kind = "slice" ->
            <<Cardinality({k \in 0 .. nav[1] - 1 : Picks(key, <<k>>, nav)})>> \o Tail(nav)
      [] key.kind = "tuple" -> SubSeq(nav, Len(key.ks) + 1, Len(nav))
      [] key.kind = "mask" ->
            <<Cardinality({p \in 1 .. Len(key.mask.data) : key.mask.data[p]})>>
            \o SubSeq(nav, Len(key.mask.shape) + 1, Len(nav))

\* The result of obj[key] is of the class of obj and holds, in C order, the
\* entries of obj that key selects.
SameClassOverSelection ==
    LET nav == Object3d_shape(other)
        entries == Rows([shape |-> <<Size(nav), 4>>, data |-> Object3d_data(other).data])
        P == {Ravel(m, nav) : m \in {x \in Indices(nav) : Picks(shape_arg, x, nav)}}
        out == Rows([shape |-> <<Object3d_size(res.value), 4>>,
                     data |-> Object3d_data(res.value).data])
    IN  /\ res.status = "ok"
        /\ res.value.cls = other.cls
        /\ Len(out) = Cardinality(P)
        /\ \A i \in 1 .. Len(out) :
              out[i] = entries[(CHOOSE x \in P : Cardinality({y \in P : y < x}) = i - 1) + 1]

\* C26, as stated: obj[key] is an instance of the class of obj over the
\* sliced navigation axes and has at least two navigation dimensions, for
\* an integer, a slice, a tuple and a boolean mask.
C26_SliceHasTwoNavigationDims ==
    (pc = "__getitem__" /\ InNavigation(shape_arg, Object3d_shape(other))) =>
        /\ SameClassOverSelection
        /\ Object3d_ndim(res.value) >= 2

\* C26, amended: obj[key] is an instance of the class of obj over the
\* sliced navigation axes, its data coerced to at least two dimensions: the
\* navigation shape is what the key leaves of the navigation axes, and (1,)
\* when it leaves none.
C26_SliceDataIsAtLeast2d ==
    (pc = "__getitem__" /\ InNavigation(shape_arg, Object3d_shape(other))) =>
        /\ SameClassOverSelection
        /\ Len(Object3d_data(res.value).shape) >= 2
        /\ Object3d_shape(res.value) =
              IF Sliced(shape_arg, Object3d_shape(other)) = <<>> THEN <<1>>
              ELSE Sliced(shape_arg, Object3d_shape(other))

\* C26 witness: a one-dimensional object of four entries was sliced with
\* 1:3 and the result has the one navigation axis of length 2.
C26_Witness ==
    /\ pc = "__getitem__"
    /\ shape_arg = SliceKey(1, 3)
    /\ Object3d_shape(other) = <<4>>
    /\ res.status = "ok"
    /\ Object3d_shape(self) = <<2>>

----------------------------------------------------------------------------
(* triple_cross on batches of every navigation shape, under SpecAlg. *)

\* The 4-component dot product of two elements, up to their denominators.
Dot4(x, y) ==
    x.num[1] * y.num[1] + x.num[2] * y.num[2] + x.num[3] * y.num[3] + x.num[4] * y.num[4]

\* C27: for three batches of one navigation shape S, of any number of
\* navigation dimensions, triple_cross returns a batch of shape S whose
\* element at each index is the triple cross product of the operands'
\* elements at that index, and is orthogonal to each of the three.
C27_TripleCrossElementwiseOrthogonal ==
    (pc = "done" /\ op = <<"triple_cross">>) =>
        /\ res.status = "ok"
        /\ res.value.shape = self.shape
        /\ \A m \in Indices(self.shape) :
              LET t == At(res.value, m)
              IN  /\ SameValue(t, triple_cross_element(At(self, m), At(other, m), At(q3, m)))
                  /\ t.den # 0
                  /\ Dot4(t, At(self, m)) = 0
                  /\ Dot4(t, At(other, m)) = 0
                  /\ Dot4(t, At(q3, m)) = 0

\* C27 witness: triple_cross has been called on three batches with two
\* navigation dimensions, two entries along the first, and returned no
\* batch.
C27_Witness ==
    /\ pc = "done" /\ op = <<"triple_cross">>
    /\ Len(self.shape) = 2 /\ Head(self.shape) = 2
    /\ Len(other.data) = Len(self.data) /\ Len(q3.data) = Len(self.data)
    /\ res.status # "ok"

----------------------------------------------------------------------------
(* Quaternion.from_euler                                                   *)
(*                                                                         *)
(* A string is the sequence of its characters.  An angle is known by the   *)
(* cosine c / den and the sine s / den of its half, exact ratios standing  *)
(* for the floating-point ones, and by whether its magnitude exceeds 4 pi; *)
(* a number of the argument euler is the angle it is when read as radians  *)
(* and the angle it is when read as degrees.                               *)

UpperCase == <<"A", "B", "C", "L", "M", "R", "S", "T", "X", "Y", "E">>
LowerCase == <<"a", "b", "c", "l", "m", "r", "s", "t", "x", "y", "e">>

\* str.lower()
lower(str) ==
    [i \in 1 .. Len(str) |->
        IF \E k \in 1 .. Len(UpperCase) : UpperCase[k] = str[i]
        THEN LowerCase[CHOOSE k \in 1 .. Len(UpperCase) : UpperCase[k] = str[i]]
        ELSE str[i]]

lab2crystal == <<"l", "a", "b", "2", "c", "r", "y", "s", "t", "a", "l">>
crystal2lab == <<"c", "r", "y", "s", "t", "a", "l", "2", "l", "a", "b">>
mtex == <<"m", "t", "e", "x">>

\* directions = ["lab2crystal", "crystal2lab"]
directions == <<lab2crystal, crystal2lab>>

\* The ValueError of from_euler with its message.
DirectionError ==
    [status |-> "ValueError",
     value |-> Instance("none", <<>>, <<>>, "none", "none"),
     message |-> <<"The chosen direction is not one of the allowed options", directions>>]

Angle(c, s, den, high) == [c |-> c, s |-> s, den |-> den, high |-> high]

\* np.deg2rad on one number, and the number read as radians.
deg2rad(x) == x.deg
radians(x) == x.rad

\* _conversions.eu2qu on one Bunge triple (phi1, Phi, phi2): with
\* sigma = (phi1 + phi2) / 2 and delta = (phi1 - phi2) / 2 the quaternion is
\* (c cos sigma, -s cos delta, -s sin delta, -c sin sigma), c and s the cosine
\* and sine of Phi / 2, negated when its first component is negative.
eu2qu(eu) ==
    LET p1 == eu[1]  P == eu[2]  p2 == eu[3]
        cos_sigma == p1.c * p2.c - p1.s * p2.s
        sin_sigma == p1.s * p2.c + p1.c * p2.s
        cos_delta == p1.c * p2.c + p1.s * p2.s
        sin_delta == p1.s * p2.c - p1.c * p2.s
        qu == <<P.c * cos_sigma, -P.s * cos_delta, -P.s * sin_delta, -P.c * sin_sigma>>
    IN  [num |-> IF qu[1] < 0 THEN [k \in 1 .. 4 |-> -qu[k]] ELSE qu,
         den |-> p1.den * p2.den * P.den]

\* The direction from_euler works with: lower-cased, "mtex" and the
\* deprecated convention="mtex" standing for "crystal2lab".
euler_direction(direction, kwargs) ==
    IF lower(direction) = mtex
       \/ ("convention" \in DOMAIN kwargs /\ kwargs["convention"] = mtex)
    THEN crystal2lab
    ELSE lower(direction)

\* from_euler that returns eu2qu's quaternions for either direction.
from_euler_no_inverse(cls, euler, direction, degrees, kwargs) ==
    LET dir == euler_direction(direction, kwargs)
        nav == IF euler.shape = <<>> THEN <<1>> ELSE euler.shape
        eu == [p \in 1 .. Len(euler.data) |->
                 [k \in 1 .. 3 |-> IF degrees THEN deg2rad(euler.data[p][k])
                                   ELSE radians(euler.data[p][k])]]
    IN  IF dir # lab2crystal /\ dir # crystal2lab
        THEN [res |-> DirectionError, warned |-> <<>>]
        ELSE [res |-> Returned(Object3d_init(cls,
                         [shape |-> nav, data |-> [p \in 1 .. Len(eu) |-> eu2qu(eu[p])]])),
              warned |-> <<>>]

\* Quaternion.from_euler: what it returns or raises, and the warnings it
\* emits.
from_euler(cls, euler, direction, degrees, kwargs) ==
    LET dir == euler_direction(direction, kwargs)
        nav == IF euler.shape = <<>> THEN <<1>> ELSE euler.shape
        eu == [p \in 1 .. Len(euler.data) |->
                 [k \in 1 .. 3 |-> IF degrees THEN deg2rad(euler.data[p][k])
                                   ELSE radians(euler.data[p][k])]]
        w == IF \E p \in 1 .. Len(eu) : \E k \in 1 .. 3 : eu[p][k].high
             THEN <<"Angles are quite high, did you forget to set degrees=True?">>
             ELSE <<>>
        q == Object3d_init(cls, [shape |-> nav,
                                 data |-> [p \in 1 .. Len(eu) |-> eu2qu(eu[p])]])
    IN  IF dir # lab2crystal /\ dir # crystal2lab
        THEN [res |-> DirectionError, warned |-> <<>>]
        ELSE [res |-> Returned(IF dir = crystal2lab THEN invert_batch(q) ELSE q),
              warned |-> w]

----------------------------------------------------------------------------
(* Quaternion.from_rodrigues and Quaternion.from_axes_angles               *)
(*                                                                         *)
(* A vector is num / den with three integers num.  The vectors of the      *)
(* model are ratios of small integers: their norms are 0 or far above      *)
(* 1000 times the resolution of float64 and far below the tangent of       *)
(* 89.9995 degrees.  An angle passed with angles is a ratio t.num / t.den. *)

\* angles=None, the default of from_rodrigues.
None == <<>>

\* 179.999 degrees in units of 1e-7 radians.
HighestAngle == 31415752

\* Vector3d.norm of one vector.
Vector3d_norm(v) == [num |-> Isqrt(SumSq3(v.num)), den |-> v.den]

\* Vector3d.unit of one vector: data / norm, 0 / 0 giving 0 by nan_to_num.
Vector3d_unit(v) ==
    IF SumSq3(v.num) = 0 THEN [num |-> <<0, 0, 0>>, den |-> 1]
    ELSE [num |-> v.num, den |-> Isqrt(SumSq3(v.num))]

\* norm < np.finfo(norm.dtype).resolution * 1000
below_resolution(norm) == norm.num = 0

\* The tangent of 89.9995 degrees in units of 1e-3.
TanHighest == 114591559

\* np.rad2deg(t) > 179.999
above_highest(t) == t.num * 10000000 > HighestAngle * t.den

\* np.rad2deg(2 * np.arctan(norm)) > 179.999
arctan_above_highest(norm) == norm.num * 1000 > TanHighest * norm.den

\* The angle 2 * arctan(t) of a ratio t >= 0: its half has the cosine
\* t.den / h and the sine t.num / h, h the hypotenuse.
two_arctan(t) ==
    LET h == Isqrt(t.num * t.num + t.den * t.den)
    IN  [c |-> t.den, s |-> t.num, den |-> h]

\* _conversions.ro2ax on one Rodrigues-Frank vector (n, t), t its fourth
\* component tan(omega / 2): the axis n / |n| and the angle 2 arctan(t),
\* and the axis (0, 0, 1) with the angle 0 where t is 0.
ro2ax(n, t) ==
    IF t.num = 0 THEN [axis |-> [num |-> <<0, 0, 1>>, den |-> 1], angle |-> two_arctan(t)]
    ELSE [axis |-> Vector3d_unit(n), angle |-> two_arctan(t)]

\* _conversions.ax2qu on one unit axis n and angle omega:
\* (cos(omega / 2), n sin(omega / 2)), the identity where omega is 0.
ax2qu(n, omega) ==
    IF omega.s = 0 /\ omega.c > 0 THEN Elem(<<1, 0, 0, 0>>)
    ELSE [num |-> <<omega.c * n.den, n.num[1] * omega.s,
                    n.num[2] * omega.s, n.num[3] * omega.s>>,
          den |-> omega.den * n.den]

\* Quaternion.from_axes_angles on the rows of axes and angles.
from_axes_angles(cls, axes, angles) ==
    Object3d_init(cls,
        [shape |-> <<Len(axes)>>,
         data |-> [p \in 1 .. Len(axes) |->
                      unit_element(ax2qu(Vector3d_unit(axes[p]), angles[p]))]])

\* from_rodrigues that stops at the first warning.
from_rodrigues_strict(cls, ro, angles) ==
    LET shape == IF ro.shape = <<>> THEN <<1>> ELSE ro.shape
        norm == [p \in 1 .. Len(ro.data) |-> Vector3d_norm(ro.data[p])]
        small == angles = None /\ \E p \in 1 .. Len(ro.data) : below_resolution(norm[p])
        highest == \E p \in 1 .. Len(ro.data) :
                       IF angles = None THEN arctan_above_highest(norm[p])
                       ELSE above_highest(angles[p])
        ax == [p \in 1 .. Len(ro.data) |->
                 IF angles = None
                 THEN [axis |-> ro.data[p], angle |-> two_arctan(norm[p])]
                 ELSE ro2ax(ro.data[p], angles[p])]
        q == from_axes_angles(cls, [p \in 1 .. Len(ax) |-> ax[p].axis],
                              [p \in 1 .. Len(ax) |-> ax[p].angle])
    IN  IF Size(ro.shape) = 0 \/ ro.width = 0
        THEN [res |-> Returned(Object3d_init(cls, [shape |-> <<0>>, data |-> <<>>])),
              warned |-> <<>>]
        ELSE IF ro.cls # "Vector3d" /\ ro.width # 3
        THEN [res |-> [status |-> "ValueError",
                       value |-> Instance("none", <<>>, <<>>, "none", "none"),
                       message |-> <<"Final dimension of vector array must be 3.">>],
              warned |-> <<>>]
        ELSE IF small \/ highest
        THEN [res |-> Raised("UserWarning"), warned |-> <<>>]
        ELSE [res |-> Returned(Object3d_init(cls, [shape |-> shape, data |-> q.data])),
              warned |-> <<>>]

\* Quaternion.from_rodrigues: what it returns or raises, and the warnings
\* it emits.
from_rodrigues(cls, ro, angles) ==
    LET shape == IF ro.shape = <<>> THEN <<1>> ELSE ro.shape
        norm == [p \in 1 .. Len(ro.data) |-> Vector3d_norm(ro.data[p])]
        small == angles = None /\ \E p \in 1 .. Len(ro.data) : below_resolution(norm[p])
        highest == \E p \in 1 .. Len(ro.data) :
                       IF angles = None THEN arctan_above_highest(norm[p])
                       ELSE above_highest(angles[p])
        ax == [p \in 1 .. Len(ro.data) |->
                 IF angles = None
                 THEN [axis |-> ro.data[p], angle |-> two_arctan(norm[p])]
                 ELSE ro2ax(ro.data[p], angles[p])]
        q == from_axes_angles(cls, [p \in 1 .. Len(ax) |-> ax[p].axis],
                              [p \in 1 .. Len(ax) |-> ax[p].angle])
    IN  IF Size(ro.shape) = 0 \/ ro.width = 0
        THEN [res |-> Returned(Object3d_init(cls, [shape |-> <<0>>, data |-> <<>>])),
              warned |-> <<>>]
        ELSE IF ro.cls # "Vector3d" /\ ro.width # 3
        THEN [res |-> [status |-> "ValueError",
                       value |-> Instance("none", <<>>, <<>>, "none", "none"),
                       message |-> <<"Final dimension of vector array must be 3.">>],
              warned |-> <<>>]
        ELSE [res |-> Returned(Object3d_init(cls, [shape |-> shape, data |-> q.data])),
              warned |->
                  (IF small
                   THEN <<"Max. estimated error is greater than 0.1%.">>
                   ELSE <<>>)
                  \o (IF highest
                      THEN <<"Highest angle is greater than 179.999 degrees.">>
                      ELSE <<>>)]

----------------------------------------------------------------------------
(* The conversions called once each on small inputs. *)

\* Numbers of an Euler array: 0, about 1.85, 180, 900 and about -1.29.
EulerNumbers ==
    << [rad |-> Angle(1, 0, 1, FALSE), deg |-> Angle(1, 0, 1, FALSE)],
       [rad |-> Angle(3, 4, 5, FALSE), deg |-> Angle(1, 0, 1, FALSE)],
       [rad |-> Angle(-3, 4, 5, TRUE), deg |-> Angle(0, 1, 1, FALSE)],
       [rad |-> Angle(-4, -3, 5, TRUE), deg |-> Angle(0, 1, 1, TRUE)],
       [rad |-> Angle(4, -3, 5, FALSE), deg |-> Angle(1, 0, 1, FALSE)] >>

EulerTriples ==
    << <<EulerNumbers[1], EulerNumbers[1], EulerNumbers[1]>>,
       <<EulerNumbers[2], EulerNumbers[5], EulerNumbers[1]>>,
       <<EulerNumbers[3], EulerNumbers[2], EulerNumbers[5]>>,
       <<EulerNumbers[2], EulerNumbers[4], EulerNumbers[2]>>,
       <<EulerNumbers[5], EulerNumbers[2], EulerNumbers[2]>> >>

EulerArrays ==
    {[shape |-> <<>>, data |-> <<EulerTriples[t]>>] : t \in 1 .. 5}
    \cup {[shape |-> <<2>>, data |-> <<EulerTriples[t], EulerTriples[t + 1]>>] : t \in 1 .. 4}
    \cup {[shape |-> <<2, 2>>,
           data |-> <<EulerTriples[2], EulerTriples[3], EulerTriples[5], EulerTriples[2]>>]}

Directions ==
    {lab2crystal, crystal2lab, mtex,
     <<"L", "A", "B", "2", "C", "R", "Y", "S", "T", "A", "L">>,
     <<"C", "r", "y", "s", "t", "a", "l", "2", "L", "a", "b">>,
     <<"M", "T", "e", "X">>,
     <<"b", "u", "n", "g", "e">>,
     <<"m", "t", "e", "x", " ">>,
     <<>>}

Kwargs ==
    {<<>>, [k \in {"convention"} |-> mtex],
     [k \in {"convention"} |-> <<"b", "u", "n", "g", "e">>]}

\* Rodrigues vectors whose norms 0, 4/3, 3/4, 3/4 and 12/5 have a rational
\* arctangent triangle.
RoVectors ==
    << [num |-> <<0, 0, 0>>, den |-> 1],
       [num |-> <<4, 0, 0>>, den |-> 3],
       [num |-> <<0, -3, 0>>, den |-> 4],
       [num |-> <<2, 1, 2>>, den |-> 4],
       [num |-> <<0, 0, 12>>, den |-> 5] >>

RoArrays ==
    {[cls |-> c, shape |-> <<>>, width |-> 3, data |-> <<RoVectors[t]>>] :
        c \in {"ndarray"}, t \in 1 .. 5}
    \cup {[cls |-> c, shape |-> <<2>>, width |-> 3,
           data |-> <<RoVectors[t], RoVectors[t + 1]>>] :
             c \in {"ndarray", "Vector3d"}, t \in 1 .. 4}
    \cup {[cls |-> "ndarray", shape |-> <<2, 1>>, width |-> 3,
           data |-> <<RoVectors[4], RoVectors[2]>>],
          [cls |-> "ndarray", shape |-> <<0>>, width |-> 3, data |-> <<>>],
          [cls |-> "ndarray", shape |-> <<2>>, width |-> 4,
           data |-> <<Elem(<<1, 0, 0, 0>>), Elem(<<0, 0, 1, 2>>)>>]}

\* Values of angles: 0, 4/3, 3/4 and 24/7, the last above 179.999 degrees.
RoAngles ==
    << [num |-> 0, den |-> 1], [num |-> 4, den |-> 3],
       [num |-> 3, den |-> 4], [num |-> 24, den |-> 7] >>

\* The arguments angles that go with ro: None, or one value per vector
\* where no vector is zero.
AnglesFor(ro) ==
    {None}
    \cup IF ro.width = 3 /\ \A p \in 1 .. Len(ro.data) : SumSq3(ro.data[p].num) # 0
         THEN {[p \in 1 .. Len(ro.data) |-> RoAngles[((p + k) % 4) + 1]] : k \in 0 .. 3}
         ELSE {}

ConvClasses == {"Quaternion", "SubQuaternion"}

InitConv ==
    /\ self = <<>>
    /\ other = <<>>
    /\ pc = "idle"
    /\ op = <<>>
    /\ lazy = FALSE
    /\ chunk_size = 1
    /\ res = NoResult
    /\ arr = <<>>
    /\ stored = {}
    /\ heap = <<>>
    /\ objs = <<>>
    /\ arrays = <<>>
    /\ writes = 0
    /\ NoExtra

ConvFrame ==
    UNCHANGED <<self, other, lazy, chunk_size, arr, stored, heap, objs, arrays, writes,
                q3, q_acc, r_draw, u_idx, u_inv>>

\* res = cls.from_euler(euler, direction, degrees, **kwargs)
FromEuler ==
    /\ pc = "idle"
    /\ \E cls \in ConvClasses, euler \in EulerArrays, direction \in Directions,
          degrees \in BOOLEAN, kwargs \in Kwargs :
          LET r == from_euler(cls, euler, direction, degrees, kwargs)
          IN  /\ shape_arg' = [cls |-> cls, euler |-> euler, direction |-> direction,
                               degrees |-> degrees, kwargs |-> kwargs]
              /\ res' = r.res
              /\ warned' = warned \o r.warned
    /\ op' = Append(op, "from_euler")
    /\ pc' = "done"
    /\ ConvFrame

\* res = cls.from_rodrigues(ro, angles)
FromRodrigues ==
    /\ pc = "idle"
    /\ \E cls \in ConvClasses, ro \in RoArrays :
          \E angles \in AnglesFor(ro) :
             LET r == from_rodrigues(cls, ro, angles)
             IN  /\ shape_arg' = [cls |-> cls, ro |-> ro, angles |-> angles]
                 /\ res' = r.res
                 /\ warned' = warned \o r.warned
    /\ op' = Append(op, "from_rodrigues")
    /\ pc' = "done"
    /\ ConvFrame

NextConv == FromEuler \/ FromRodrigues

SpecConv == InitConv /\ [][NextConv]_vars

\* from_euler has been called with these arguments.
CalledFromEuler == pc = "done" /\ op = <<"from_euler">>
CalledFromRodrigues == pc = "done" /\ op = <<"from_rodrigues">>

\* The direction of the call, lower-cased, is none of the three names.
UnknownDirection ==
    LET d == lower(shape_arg.direction)
    IN  d # lab2crystal /\ d # crystal2lab /\ d # mtex

\* The call raised the ValueError that lists the two options, before any
\* warning and with no quaternion.
DirectionRejected ==
    /\ res.status = "ValueError"
    /\ res.message[2] = <<lab2crystal, crystal2lab>>
    /\ res.value.cls = "none"
    /\ warned = <<>>

\* C23: from_euler raises the ValueError listing lab2crystal and
\* crystal2lab for every direction that lower-cased is not lab2crystal,
\* crystal2lab or mtex, before any conversion and returning no quaternion.
C23_UnknownDirectionRaises ==
    (CalledFromEuler /\ UnknownDirection) => DirectionRejected

\* The call passed convention="mtex".
ConventionMtex ==
    /\ "convention" \in DOMAIN shape_arg.kwargs
    /\ shape_arg.kwargs["convention"] = mtex

\* A call without convention="mtex" raises that ValueError for every such
\* direction; a call with it converts whatever the direction is.
UnknownDirectionRaisesWithoutConvention ==
    /\ (CalledFromEuler /\ UnknownDirection /\ ~ConventionMtex) => DirectionRejected
    /\ (CalledFromEuler /\ ConventionMtex) => res.status = "ok"

\* C23 witness: from_euler was called with the direction "bunge" and
\* convention="mtex" and returned a quaternion for each of two triples.
C23_Witness ==
    /\ CalledFromEuler
    /\ shape_arg.direction = <<"b", "u", "n", "g", "e">>
    /\ ConventionMtex
    /\ shape_arg.euler.shape = <<2>>
    /\ res.status = "ok"
    /\ Len(res.value.data) = 2

\* Elements x and y are inverses of each other: both products are 1.
Inverses(x, y) ==
    /\ SameValue(quaternion_multiply(x, y), Elem(<<1, 0, 0, 0>>))
    /\ SameValue(quaternion_multiply(y, x), Elem(<<1, 0, 0, 0>>))

\* What from_euler gives for the arguments of the call with direction d
\* and no keyword.
WithDirection(d) ==
    from_euler(shape_arg.cls, shape_arg.euler, d, shape_arg.degrees, <<>>).res

\* C24: from_euler(e, "lab2crystal") is the element-wise inverse of
\* from_euler(e, "crystal2lab") for every e, and "mtex" in any letter case
\* gives what "crystal2lab" gives.
C24_EulerDirectionsAreInverse ==
    (CalledFromEuler /\ shape_arg.kwargs = <<>>) =>
        /\ lower(shape_arg.direction) = lab2crystal =>
              /\ res.status = "ok"
              /\ WithDirection(crystal2lab).status = "ok"
              /\ res.value.cls = WithDirection(crystal2lab).value.cls
              /\ res.value.shape = WithDirection(crystal2lab).value.shape
              /\ \A p \in 1 .. Len(res.value.data) :
                    Inverses(res.value.data[p], WithDirection(crystal2lab).value.data[p])
        /\ lower(shape_arg.direction) = mtex =>
              /\ res.status = "ok"
              /\ res = WithDirection(crystal2lab)

C24_Witness ==
    /\ CalledFromEuler
    /\ shape_arg.kwargs = <<>>
    /\ shape_arg.direction = <<"L", "A", "B", "2", "C", "R", "Y", "S", "T", "A", "L">>
    /\ shape_arg.euler.shape = <<2, 2>>
    /\ res.status = "ok"
    /\ \E p \in 1 .. 4 : ~SameValue(res.value.data[p], Elem(<<1, 0, 0, 0>>))

\* The number of elements of the array passed to the call.
InputElements ==
    IF op = <<"from_euler">> THEN Len(shape_arg.euler.data)
    ELSE Len(shape_arg.ro.data)

\* The call met one of the three precision conditions.
SmallVector ==
    /\ CalledFromRodrigues
    /\ shape_arg.ro.width = 3
    /\ shape_arg.angles = None
    /\ \E p \in 1 .. Len(shape_arg.ro.data) :
          below_resolution(Vector3d_norm(shape_arg.ro.data[p]))
HighestAngleExceeded ==
    /\ CalledFromRodrigues
    /\ shape_arg.ro.width = 3
    /\ \E p \in 1 .. Len(shape_arg.ro.data) :
          IF shape_arg.angles = None
          THEN arctan_above_highest(Vector3d_norm(shape_arg.ro.data[p]))
          ELSE above_highest(shape_arg.angles[p])
HighEulerAngle ==
    /\ CalledFromEuler
    /\ res.status # "ValueError"
    /\ \E p \in 1 .. Len(shape_arg.euler.data) : \E k \in 1 .. 3 :
          IF shape_arg.degrees THEN shape_arg.euler.data[p][k].deg.high
          ELSE shape_arg.euler.data[p][k].rad.high

\* C25: a from_rodrigues call with a vector of norm below 1000 times the
\* machine resolution, a from_rodrigues call with an angle above 179.999
\* degrees and a from_euler call with an angle above 4 pi in magnitude each
\* emit a warning and return one quaternion per input element.
C25_PrecisionConditionsOnlyWarn ==
    (SmallVector \/ HighestAngleExceeded \/ HighEulerAngle) =>
        /\ warned # <<>>
        /\ res.status = "ok"
        /\ res.value.cls = shape_arg.cls
        /\ Len(res.value.data) = InputElements
        /\ Size(res.value.shape) = InputElements
        /\ \A p \in 1 .. Len(res.value.data) : Len(res.value.data[p].num) = 4

C25_Witness ==
    /\ HighestAngleExceeded
    /\ shape_arg.ro.shape = <<2>>
    /\ Len(warned) = 1
    /\ res.status = "ok"
    /\ \A p \in 1 .. 2 : IsUnit(res.value.data[p])

====
